---------------------------- MODULE Spec2Model ----------------------------
(***************************************************************************)
(* The diagnostic tools of AI File Sorter: DiagnosticTool                  *)
(* (diagnostic_tool.py, the "basic" tool) and ThoroughDiagnosticTool       *)
(* (thorough_diagnostic.py, the "thorough" tool).                          *)
(*                                                                         *)
(* A tool instance owns a flat list of results and, in the thorough tool,  *)
(* a dictionary of category buckets.  run_all_checks walks a fixed list of *)
(* check methods; a check records results through add_result and then      *)
(* returns, raises an ordinary exception, or is interrupted by the user.   *)
(* main builds the report from the recorded results afterwards.            *)
(*                                                                         *)
(* TestAggregator (test_aggregator.py, the trend analyzer) loads report    *)
(* files, sorts them by timestamp and prints trends over them.             *)
(***************************************************************************)
EXTENDS Naturals, Sequences, FiniteSets, TLC

VARIABLES variant, platform, args, pc, idx, results, categories, err_log, invoked, reports,
          exit_code, files, agg_pc, load_returns, agg_reports, analysis

\* The state of the diagnostic tools.
toolVars == <<variant, platform, args, pc, idx, results, categories, err_log, invoked, reports,
              exit_code>>

\* The report files on disk and the state of the trend analyzer.
aggVars == <<files, agg_pc, load_returns, agg_reports, analysis>>

vars == <<variant, platform, args, pc, idx, results, categories, err_log, invoked, reports,
          exit_code, files, agg_pc, load_returns, agg_reports, analysis>>

(***************************************************************************)
(* Bounds of the model.                                                    *)
(***************************************************************************)
\* Length of the prefix of check_methods that a modelled run walks.
NumChecks == 3

\* Results that the probes of one run record in all (the results that
\* run_all_checks adds itself are not capped).
MaxProbeResults == 3

\* Results recorded through direct add_result calls before the report is
\* built (SpecScore).
MaxApiResults == 7

\* Results recorded per tool when two tools are used side by side (SpecPair).
MaxPairResults == 2

(***************************************************************************)
(* The two tool classes and the tool instances of one process.             *)
(***************************************************************************)
Variants == {"basic", "thorough"}

Tool == {"tool1", "tool2"}

\* The statuses the tools' own add_result calls pass.
Statuses(v) ==
    IF v = "basic" THEN {"OK", "WARNING", "FAIL", "INFO"}
    ELSE {"OK", "WARNING", "FAIL", "INFO", "SKIP"}

\* The check list of run_all_checks: (name, method) pairs in the basic tool,
\* bare methods in the thorough tool.
check_methods(v) ==
    IF v = "basic"
    THEN <<"System Information", "File Structure", "Dependencies",
           "LLM Backends", "Database", "Configuration", "Logs", "Features",
           "Performance">>
    ELSE <<"check_system_info", "check_file_structure", "check_dependencies",
           "check_llm_backends", "check_database", "check_configuration",
           "check_features", "check_logs", "check_performance",
           "check_api_connectivity">>

\* The modelled prefix of the check list.
CheckList(v) ==
    SubSeq(check_methods(v), 1,
           IF NumChecks < Len(check_methods(v)) THEN NumChecks
           ELSE Len(check_methods(v)))

\* The category each check method of the thorough tool passes to add_result
\* (check_features delegates to per-feature methods; its first one is used).
CheckCategory(name) ==
    CASE name = "check_system_info"      -> "System"
      [] name = "check_file_structure"   -> "File Structure"
      [] name = "check_dependencies"     -> "Dependencies"
      [] name = "check_llm_backends"     -> "LLM Backends"
      [] name = "check_database"         -> "Database"
      [] name = "check_configuration"    -> "Configuration"
      [] name = "check_features"         -> "Feature: Categorization"
      [] name = "check_logs"             -> "Logs"
      [] name = "check_performance"      -> "Performance"
      [] OTHER                           -> "API"

\* add_result's default for its category parameter.
DefaultCategory == "General"

(***************************************************************************)
(* DiagnosticResult.  The basic tool's results carry no category.          *)
(***************************************************************************)
DiagnosticResult(v, name, status, message, details, category) ==
    IF v = "basic"
    THEN [name |-> name, status |-> status, message |-> message,
          details |-> details]
    ELSE [name |-> name, status |-> status, message |-> message,
          details |-> details, category |-> category]

(***************************************************************************)
(* The category dictionary (a defaultdict(list)): a sequence of            *)
(* [category, items] entries in insertion order of the keys.               *)
(***************************************************************************)
CategoryKeys(cats) == {cats[i].category : i \in DOMAIN cats}

\* Mutant of CategoryAppend: the bucket of a new category is put in front
\* of the others.
CategoryAppend_NewBucketFirst(cats, category, r) ==
    IF category \in CategoryKeys(cats)
    THEN [i \in DOMAIN cats |->
            IF cats[i].category = category
            THEN [cats[i] EXCEPT !.items = Append(@, r)]
            ELSE cats[i]]
    ELSE <<[category |-> category, items |-> <<r>>]>> \o cats

\* self.categories[category].append(result).
CategoryAppend(cats, category, r) ==
    IF category \in CategoryKeys(cats)
    THEN [i \in DOMAIN cats |->
            IF cats[i].category = category
            THEN [cats[i] EXCEPT !.items = Append(@, r)]
            ELSE cats[i]]
    ELSE Append(cats, [category |-> category, items |-> <<r>>])

\* Mutant of ResultsAfterAdd: the result is put in front of the list
\* ("self.results.insert(0, result)").
ResultsAfterAdd_Prepend(self, name, status, message, details, category) ==
    <<DiagnosticResult(variant[self], name, status, message, details, category)>>
        \o results[self]

\* self.results after add_result.
ResultsAfterAdd(self, name, status, message, details, category) ==
    Append(results[self],
           DiagnosticResult(variant[self], name, status, message, details, category))

\* Mutant of CategoriesAfterAdd: the bucket is replaced by the new result
\* ("self.categories[category] = [result]") instead of being appended to.
CategoriesAfterAdd_Overwrite(self, name, status, message, details, category) ==
    LET r == DiagnosticResult(variant[self], name, status, message, details, category)
        cats == categories[self]
    IN  IF variant[self] = "basic" THEN cats
        ELSE IF category \in CategoryKeys(cats)
        THEN [i \in DOMAIN cats |->
                IF cats[i].category = category
                THEN [cats[i] EXCEPT !.items = <<r>>]
                ELSE cats[i]]
        ELSE Append(cats, [category |-> category, items |-> <<r>>])

\* self.categories after add_result (the basic tool has no such dictionary).
CategoriesAfterAdd(self, name, status, message, details, category) ==
    IF variant[self] = "basic" THEN categories[self]
    ELSE CategoryAppend(categories[self], category,
                        DiagnosticResult(variant[self], name, status, message,
                                         details, category))

\* Mutant of add_result: results and categories are attributes of the class,
\* shared by every instance.
add_result_SharedLists(self, name, status, message, details, category) ==
    LET r == DiagnosticResult(variant[self], name, status, message, details, category)
    IN  /\ results' = [t \in Tool |-> Append(results[t], r)]
        /\ categories' = [t \in Tool |->
                             IF variant[self] = "basic" THEN categories[t]
                             ELSE CategoryAppend(categories[t], category, r)]

\* add_result: the state change of one call.
add_result(self, name, status, message, details, category) ==
    /\ results' = [results EXCEPT
                     ![self] = ResultsAfterAdd(self, name, status, message,
                                               details, category)]
    /\ categories' = [categories EXCEPT
                        ![self] = CategoriesAfterAdd(self, name, status, message,
                                                     details, category)]

(***************************************************************************)
(* Report generation.                                                      *)
(***************************************************************************)
\* sum(1 for r in self.results if r.status == status)
RECURSIVE CountStatus(_, _)
CountStatus(rs, status) ==
    IF rs = <<>> THEN 0
    ELSE (IF Head(rs).status = status THEN 1 ELSE 0) + CountStatus(Tail(rs), status)

\* stats[key] += 1 on a defaultdict(int).
Increment(stats, key) ==
    IF key \in DOMAIN stats THEN [stats EXCEPT ![key] = @ + 1]
    ELSE stats @@ (key :> 1)

\* The loop "for result in self.results: stats_by_status[result.status] += 1",
\* run over rs starting from stats.
RECURSIVE StatsByStatus(_, _)
StatsByStatus(rs, stats) ==
    IF rs = <<>> THEN stats
    ELSE StatsByStatus(Tail(rs), Increment(stats, Head(rs).status))

\* Reading stats[key] on a defaultdict(int): a missing key is inserted with 0.
ReadDefault(stats, key) ==
    IF key \in DOMAIN stats THEN stats ELSE stats @@ (key :> 0)

\* Mutant of W_high: the threshold set to 10.
W_high_Ten(v) == 10

\* The warning count above which a run without failures needs attention.
W_high(v) == IF v = "basic" THEN 3 ELSE 5

\* Mutant of HealthScore: the threshold compared with >= instead of >.
HealthScore_AtLeast(v, fail_count, warning_count) ==
    IF fail_count > 0 THEN "CRITICAL"
    ELSE IF warning_count >= W_high(v) THEN "NEEDS ATTENTION"
    ELSE IF warning_count > 0 THEN "GOOD"
    ELSE "EXCELLENT"

\* Mutant of HealthScore: the verdicts of the first and the last branch
\* exchanged.
HealthScore_LabelsSwapped(v, fail_count, warning_count) ==
    IF fail_count > 0 THEN "EXCELLENT"
    ELSE IF warning_count > W_high(v) THEN "NEEDS ATTENTION"
    ELSE IF warning_count > 0 THEN "GOOD"
    ELSE "CRITICAL"

\* The overall health from the FAIL and WARNING counts.
HealthScore(v, fail_count, warning_count) ==
    IF fail_count > 0 THEN "CRITICAL"
    ELSE IF warning_count > W_high(v) THEN "NEEDS ATTENTION"
    ELSE IF warning_count > 0 THEN "GOOD"
    ELSE "EXCELLENT"

\* Mutant of ThoroughByStatus: the basic tool's four counters, which know
\* no SKIP.
ThoroughByStatus_FourCounters(rs) ==
    [k \in {"OK", "WARNING", "FAIL", "INFO"} |-> CountStatus(rs, k)]

\* Mutant of ThoroughByStatus: a SKIP result counted as a WARNING.
ThoroughByStatus_SkipAsWarning(rs) ==
    LET stats == ReadDefault(ReadDefault(StatsByStatus(rs, <<>>), "FAIL"), "WARNING")
    IN  [stats EXCEPT !["WARNING"] = @ + CountStatus(rs, "SKIP")]

\* The "by_status" counts of the thorough report: the counted statuses plus
\* the FAIL and WARNING keys that computing the health reads.
ThoroughByStatus(rs) ==
    ReadDefault(ReadDefault(StatsByStatus(rs, <<>>), "FAIL"), "WARNING")

\* The four counts the basic report writes beside "total".
BasicByStatus(rs) ==
    [k \in {"ok", "warning", "fail", "info"} |->
        CASE k = "ok"      -> CountStatus(rs, "OK")
          [] k = "warning" -> CountStatus(rs, "WARNING")
          [] k = "fail"    -> CountStatus(rs, "FAIL")
          [] OTHER         -> CountStatus(rs, "INFO")]

\* ThoroughDiagnosticTool.generate_json_report: the report it returns.
ThoroughReport(rs, cats) ==
    LET by_status == ThoroughByStatus(rs)
    IN  [total |-> Len(rs),
         by_status |-> by_status,
         health |-> HealthScore("thorough", by_status["FAIL"], by_status["WARNING"]),
         results_by_category |-> cats,
         all_results |-> rs]

\* DiagnosticTool.generate_report: the report it serialises.
BasicReport(rs) ==
    LET by_status == BasicByStatus(rs)
    IN  [total |-> Len(rs),
         by_status |-> by_status,
         health |-> HealthScore("basic", by_status["fail"], by_status["warning"]),
         all_results |-> rs]

\* The report a tool builds from its current state.
generate_report(self) ==
    IF variant[self] = "basic" THEN BasicReport(results[self])
    ELSE ThoroughReport(results[self], categories[self])

\* The command line before main has parsed it.
NoArgs == [output |-> "None", html |-> FALSE, markdown |-> FALSE]

(***************************************************************************)
(* Initial state: the tools of the process constructed, nothing run.  Each *)
(* script constructs tools of its own class only.  platform is what         *)
(* platform.system() returned to the constructors; the runs that depend on *)
(* it start from InitCalls.                                                *)
(***************************************************************************)
Init ==
    /\ \E v \in Variants : variant = [t \in Tool |-> v]
    /\ platform = "Linux"
    /\ args = [t \in Tool |-> NoArgs]
    /\ pc = [t \in Tool |-> "new"]
    /\ idx = [t \in Tool |-> 1]
    /\ results = [t \in Tool |-> <<>>]
    /\ categories = [t \in Tool |-> <<>>]
    /\ err_log = [t \in Tool |-> <<>>]
    /\ invoked = [t \in Tool |-> <<>>]
    /\ reports = [t \in Tool |-> <<>>]
    /\ exit_code = [t \in Tool |-> "none"]
    /\ files = <<>>
    /\ agg_pc = "loading"
    /\ load_returns = <<>>
    /\ agg_reports = <<>>
    /\ analysis = [done |-> FALSE]

(***************************************************************************)
(* main and run_all_checks.                                                *)
(***************************************************************************)
\* The name of the check the loop is at.
CurrentCheck(self) == CheckList(variant[self])[idx[self]]

\* Results of the run that a probe recorded.
ProbeCount(self) ==
    Cardinality({i \in DOMAIN results[self] : results[self][i].message = "probe"})

\* main constructs the tool and calls run_all_checks.
MainStart(self) ==
    /\ pc[self] = "new"
    /\ pc' = [pc EXCEPT ![self] = "loop"]
    /\ UNCHANGED <<variant, platform, args, idx, results, categories, err_log, invoked, reports, exit_code>>
    /\ UNCHANGED aggVars

\* The loop takes the next check and calls check_method().
CheckInvoke(self) ==
    /\ pc[self] = "loop"
    /\ idx[self] <= Len(CheckList(variant[self]))
    /\ pc' = [pc EXCEPT ![self] = "check"]
    /\ invoked' = [invoked EXCEPT ![self] = Append(@, idx[self])]
    /\ UNCHANGED <<variant, platform, args, idx, results, categories, err_log, reports, exit_code>>
    /\ UNCHANGED aggVars

\* The running check records one result.  What a check records depends on
\* the machine it inspects: the status is any status the tool uses, the
\* result is named after the check, and its message and details are the
\* tags "probe" and "None".
ProbeAddResult(self, status) ==
    /\ pc[self] = "check"
    /\ ProbeCount(self) < MaxProbeResults
    /\ status \in Statuses(variant[self])
    /\ add_result(self, CurrentCheck(self), status, "probe", "None",
                  CheckCategory(CurrentCheck(self)))
    /\ UNCHANGED <<variant, platform, args, pc, idx, err_log, invoked, reports, exit_code>>
    /\ UNCHANGED aggVars

\* check_method() returns normally.
CheckReturn(self) ==
    /\ pc[self] = "check"
    /\ pc' = [pc EXCEPT ![self] = "loop"]
    /\ idx' = [idx EXCEPT ![self] = @ + 1]
    /\ UNCHANGED <<variant, platform, args, results, categories, err_log, invoked, reports, exit_code>>
    /\ UNCHANGED aggVars

\* What "except Exception" does to the results.
ExceptionRecorded(self) ==
    IF variant[self] = "basic"
    THEN add_result(self, CurrentCheck(self) \o " Check", "FAIL",
                    "Check failed with error", "traceback", DefaultCategory)
    ELSE UNCHANGED <<results, categories>>

\* Mutant of IndexAfterException: the except clause leaves the loop.
IndexAfterException_Break(self) == Len(CheckList(variant[self])) + 1

\* The loop index after the except clause: the for loop goes on to the next
\* check.
IndexAfterException(self) == idx[self] + 1

\* check_method() raises an ordinary exception.  Both tools print an error
\* line (err_log keeps it with the check it came from).
CheckRaise(self) ==
    /\ pc[self] = "check"
    /\ err_log' = [err_log EXCEPT
                     ![self] = Append(@, [kind |-> "error", check |-> idx[self]])]
    /\ ExceptionRecorded(self)
    /\ pc' = [pc EXCEPT ![self] = "loop"]
    /\ idx' = [idx EXCEPT ![self] = IndexAfterException(self)]
    /\ UNCHANGED <<variant, platform, args, invoked, reports, exit_code>>
    /\ UNCHANGED aggVars

\* What "except KeyboardInterrupt" does to the results before sys.exit(1).
InterruptRecorded(self) ==
    IF variant[self] = "basic"
    THEN add_result(self, CurrentCheck(self) \o " Check", "FAIL",
                    "Interrupted by user", "cancelled", DefaultCategory)
    ELSE UNCHANGED <<results, categories>>

\* The user interrupts the running check.
CheckInterrupt(self) ==
    /\ pc[self] = "check"
    /\ err_log' = [err_log EXCEPT
                     ![self] = Append(@, [kind |-> "interrupted", check |-> idx[self]])]
    /\ InterruptRecorded(self)
    /\ pc' = [pc EXCEPT ![self] = "exited"]
    /\ exit_code' = [exit_code EXCEPT ![self] = "1"]
    /\ UNCHANGED <<variant, platform, args, idx, invoked, reports>>
    /\ UNCHANGED aggVars

\* run_all_checks has returned: main builds the report.
MainGenerateReport(self) ==
    /\ pc[self] = "loop"
    /\ idx[self] > Len(CheckList(variant[self]))
    /\ reports' = [reports EXCEPT ![self] = Append(@, generate_report(self))]
    /\ pc' = [pc EXCEPT ![self] = "reported"]
    /\ UNCHANGED <<variant, platform, args, idx, results, categories, err_log, invoked, exit_code>>
    /\ UNCHANGED aggVars

\* main returns: the process ends with status 0.
MainReturn(self) ==
    /\ pc[self] = "reported"
    /\ pc' = [pc EXCEPT ![self] = "exited"]
    /\ exit_code' = [exit_code EXCEPT ![self] = "0"]
    /\ UNCHANGED <<variant, platform, args, idx, results, categories, err_log, invoked, reports>>
    /\ UNCHANGED aggVars

Next ==
    \/ MainStart("tool1")
    \/ CheckInvoke("tool1")
    \/ \E status \in Statuses("thorough") : ProbeAddResult("tool1", status)
    \/ CheckReturn("tool1")
    \/ CheckRaise("tool1")
    \/ CheckInterrupt("tool1")
    \/ MainGenerateReport("tool1")
    \/ MainReturn("tool1")

\* One run of one tool through main.
Spec == Init /\ [][Next]_vars

(***************************************************************************)
(* The tool used as an object: add_result called directly on a fresh tool, *)
(* then the report built.                                                  *)
(***************************************************************************)
\* A caller records one result, leaving details and category at their
\* defaults.
ApiAddResult(self, status, cap) ==
    /\ pc[self] = "new"
    /\ reports[self] = <<>>
    /\ Len(results[self]) < cap
    /\ status \in Statuses(variant[self])
    /\ add_result(self, "Disk Space", status, "probe", "None", DefaultCategory)
    /\ UNCHANGED <<variant, platform, args, pc, idx, err_log, invoked, reports, exit_code>>
    /\ UNCHANGED aggVars

\* A caller builds the report from what has been recorded.
ApiGenerateReport(self) ==
    /\ pc[self] = "new"
    /\ reports[self] = <<>>
    /\ reports' = [reports EXCEPT ![self] = Append(@, generate_report(self))]
    /\ UNCHANGED <<variant, platform, args, pc, idx, results, categories, err_log, invoked, exit_code>>
    /\ UNCHANGED aggVars

NextScore ==
    \/ \E status \in Statuses("thorough") : ApiAddResult("tool1", status, MaxApiResults)
    \/ ApiGenerateReport("tool1")

\* One tool: a sequence of add_result calls, then the report.
SpecScore == Init /\ [][NextScore]_vars

NextPair ==
    \/ \E self \in Tool, status \in Statuses("thorough") :
            ApiAddResult(self, status, MaxPairResults)
    \/ \E self \in Tool : ApiGenerateReport(self)

\* Two tools of one process, their calls interleaved.
SpecPair == Init /\ [][NextPair]_vars

(***************************************************************************)
(* Operators used to state the properties.                                 *)
(***************************************************************************)
Last(s) == s[Len(s)]

RECURSIVE SumOfKeys(_, _)
SumOfKeys(f, keys) ==
    IF keys = {} THEN 0
    ELSE LET k == CHOOSE x \in keys : TRUE
         IN  f[k] + SumOfKeys(f, keys \ {k})

\* The sum of all counts of a by-status dictionary.
SumCounts(f) == SumOfKeys(f, DOMAIN f)

RECURSIVE SumBucketSizes(_)
SumBucketSizes(cats) ==
    IF cats = <<>> THEN 0
    ELSE Len(Head(cats).items) + SumBucketSizes(Tail(cats))

\* The ordinal rank of a health verdict.
HealthRank(h) ==
    CASE h = "CRITICAL"        -> 1
      [] h = "NEEDS ATTENTION" -> 2
      [] h = "GOOD"            -> 3
      [] h = "EXCELLENT"       -> 4

\* The results of a run that its probes recorded, as <<name, status>> pairs.
RECURSIVE ProbeResults(_)
ProbeResults(rs) ==
    IF rs = <<>> THEN <<>>
    ELSE IF Head(rs).message = "probe"
         THEN <<[name |-> Head(rs).name, status |-> Head(rs).status]>>
              \o ProbeResults(Tail(rs))
         ELSE ProbeResults(Tail(rs))

\* A step in which the running check of tool t raised an ordinary exception.
RaiseStep(t) ==
    /\ pc[t] = "check"
    /\ Len(err_log'[t]) = Len(err_log[t]) + 1
    /\ Last(err_log'[t]).kind = "error"

Reported(t) == reports[t] # <<>>

TheReport(t) == Last(reports[t])

FailCount(t) == CountStatus(results[t], "FAIL")

WarningCount(t) == CountStatus(results[t], "WARNING")

(***************************************************************************)
(* C1.  Whenever a check raises an ordinary exception, run_all_checks      *)
(* appends exactly one FAIL result named "<check-name> Check", after the   *)
(* results the check had already recorded, with the trace in its details.  *)
(* Stated for both tools; the thorough tool's except clause only logs.     *)
(***************************************************************************)
C1_ExceptionYieldsOneFail ==
    [][\A t \in Tool :
         RaiseStep(t) =>
            /\ Len(results'[t]) = Len(results[t]) + 1
            /\ SubSeq(results'[t], 1, Len(results[t])) = results[t]
            /\ Last(results'[t]).status = "FAIL"
            /\ Last(results'[t]).name = CurrentCheck(t) \o " Check"
            /\ Last(results'[t]).details = "traceback"]_vars

(***************************************************************************)
(* C2.  Without a user interrupt every check of the list is invoked        *)
(* exactly once and in list order, whichever earlier checks raised: at any *)
(* point the invocations so far are checks 1, 2, ... in order (none        *)
(* repeated, none skipped), and a run that reaches the report has invoked  *)
(* the whole list.                                                         *)
(***************************************************************************)
C2_EveryCheckOnceInOrder ==
    \A t \in Tool :
        /\ \A i \in DOMAIN invoked[t] : invoked[t][i] = i
        /\ pc[t] = "reported" => Len(invoked[t]) = Len(CheckList(variant[t]))

\* A finished run in which the first two checks raised and the last one
\* was still invoked.
C2_Witness ==
    /\ pc["tool1"] = "reported"
    /\ Len(err_log["tool1"]) = 2
    /\ err_log["tool1"][1].check = 1
    /\ err_log["tool1"][2].check = 2
    /\ Len(invoked["tool1"]) = Len(CheckList(variant["tool1"]))

(***************************************************************************)
(* C3.  A user interrupt during a check first records one FAIL result      *)
(* describing the interruption, then exits with a non-zero status, and no  *)
(* later check is invoked.  Stated for both tools; the thorough tool exits *)
(* without recording anything.                                             *)
(***************************************************************************)
C3_InterruptRecordedThenExit ==
    \A t \in Tool :
        (err_log[t] # <<>> /\ Last(err_log[t]).kind = "interrupted") =>
            /\ pc[t] = "exited"
            /\ exit_code[t] = "1"
            /\ Last(invoked[t]) = Last(err_log[t]).check
            /\ results[t] # <<>>
            /\ Last(results[t]).status = "FAIL"
            /\ Last(results[t]).message = "Interrupted by user"

(***************************************************************************)
(* C4.  In every report the per-status counts of the summary sum to the    *)
(* summary's total, which is the number of results recorded.               *)
(***************************************************************************)
C4_StatusCountsSumToTotal ==
    \A t \in Tool :
        \A i \in DOMAIN reports[t] :
            /\ reports[t][i].total = Len(results[t])
            /\ SumCounts(reports[t][i].by_status) = reports[t][i].total

\* A thorough report over three results, one of them a SKIP.
C4_Witness ==
    /\ pc["tool1"] = "reported"
    /\ variant["tool1"] = "thorough"
    /\ TheReport("tool1").total = 3
    /\ CountStatus(results["tool1"], "SKIP") = 1
    /\ CountStatus(results["tool1"], "OK") = 1

(***************************************************************************)
(* C5.  At every point of a run of the thorough tool the sizes of the      *)
(* category buckets sum to the number of results in the flat list.         *)
(***************************************************************************)
C5_BucketSizesSumToTotal ==
    \A t \in Tool :
        variant[t] = "thorough" =>
            SumBucketSizes(categories[t]) = Len(results[t])

\* A thorough run with a bucket of two results and a second bucket.
C5_Witness ==
    /\ variant["tool1"] = "thorough"
    /\ Len(categories["tool1"]) = 2
    /\ Len(categories["tool1"][1].items) = 2
    /\ Len(results["tool1"]) = 3

(***************************************************************************)
(* C6.  The overall health follows from the FAIL and WARNING counts in     *)
(* this priority order: FAIL > 0 gives CRITICAL; else WARNING > W_high     *)
(* gives NEEDS ATTENTION; else WARNING > 0 gives GOOD; else EXCELLENT,     *)
(* with W_high 5 in the thorough tool and 3 in the basic tool.             *)
(***************************************************************************)
C6_HealthByPriority ==
    \A t \in Tool :
        Reported(t) =>
            LET f == FailCount(t)
                w == WarningCount(t)
                h == TheReport(t).health
                threshold == IF variant[t] = "thorough" THEN 5 ELSE 3
            IN  /\ f > 0 => h = "CRITICAL"
                /\ (f = 0 /\ w > threshold) => h = "NEEDS ATTENTION"
                /\ (f = 0 /\ w > 0 /\ w <= threshold) => h = "GOOD"
                /\ (f = 0 /\ w = 0) => h = "EXCELLENT"

\* A thorough report over exactly W_high warnings and no failure: GOOD.
C6_Witness ==
    /\ Reported("tool1")
    /\ variant["tool1"] = "thorough"
    /\ FailCount("tool1") = 0
    /\ WarningCount("tool1") = 5
    /\ TheReport("tool1").health = "GOOD"

C8_HealthDependsOnlyOnCounts ==
    \A t1, t2 \in Tool :
        ( /\ Reported(t1) /\ Reported(t2)
          /\ variant[t1] = variant[t2]
          /\ FailCount(t1) = FailCount(t2)
          /\ WarningCount(t1) = WarningCount(t2) ) =>
            TheReport(t1).health = TheReport(t2).health

\* Two reports over different lists with one warning each: the warning in
\* a different position, beside a SKIP in one list and an INFO in the other.
C8_Witness ==
    /\ Reported("tool1") /\ Reported("tool2")
    /\ Len(results["tool1"]) = 2 /\ Len(results["tool2"]) = 2
    /\ FailCount("tool1") = 0 /\ FailCount("tool2") = 0
    /\ WarningCount("tool1") = 1 /\ WarningCount("tool2") = 1
    /\ results["tool1"][1].status = "WARNING"
    /\ results["tool2"][2].status = "WARNING"
    /\ CountStatus(results["tool1"], "SKIP") = 1
    /\ CountStatus(results["tool2"], "INFO") = 1

(***************************************************************************)
(* C9.  The health is monotonic in the failure count: for the warning      *)
(* count of any report with at least one FAIL, the rank of the reported    *)
(* health (CRITICAL 1 < NEEDS ATTENTION 2 < GOOD 3 < EXCELLENT 4) is at    *)
(* most the rank of the health for the same warning count and no FAIL.     *)
(***************************************************************************)
C9_MonotonicInFailures ==
    \A t \in Tool :
        (Reported(t) /\ FailCount(t) > 0) =>
            HealthRank(TheReport(t).health)
                <= HealthRank(HealthScore(variant[t], 0, WarningCount(t)))

\* A report with one FAIL and six warnings, more than either threshold.
C9_Witness ==
    /\ Reported("tool1")
    /\ FailCount("tool1") = 1
    /\ WarningCount("tool1") = 6
    /\ HealthRank(TheReport("tool1").health) = 1
    /\ HealthRank(HealthScore(variant["tool1"], 0, 6)) = 2

(***************************************************************************)
(* C10.  A run of three checks, the first recording one OK result, the     *)
(* second raising an exception and the third recording one WARNING result, *)
(* ends with a report of exactly 3 results: the OK, a FAIL named after the *)
(* second check and the WARNING, in that order, and overall health         *)
(* CRITICAL.  Stated for both tools; see C1 for the thorough tool.         *)
(***************************************************************************)
ScenarioABC(t) ==
    LET checks == CheckList(variant[t])
    IN  /\ pc[t] = "reported"
        /\ Len(invoked[t]) = 3
        /\ err_log[t] = <<[kind |-> "error", check |-> 2]>>
        /\ ProbeResults(results[t]) =
              <<[name |-> checks[1], status |-> "OK"],
                [name |-> checks[3], status |-> "WARNING"]>>

C10_ThreeChecksScenario ==
    \A t \in Tool :
        ScenarioABC(t) =>
            LET checks == CheckList(variant[t])
                all == TheReport(t).all_results
            IN  /\ TheReport(t).total = 3
                /\ Len(all) = 3
                /\ all[1].name = checks[1] /\ all[1].status = "OK"
                /\ all[2].name = checks[2] \o " Check" /\ all[2].status = "FAIL"
                /\ all[3].name = checks[3] /\ all[3].status = "WARNING"
                /\ TheReport(t).health = "CRITICAL"

(***************************************************************************)
(* Report files.  A JSON document is modelled by the dictionary it         *)
(* denotes, a function on its keys: for the strings, numbers, lists and    *)
(* dictionaries a report holds, json.load returns what json.dump was       *)
(* given.  What is modelled key by key is the layout each tool writes and  *)
(* the keys the trend analyzer reads.                                      *)
(***************************************************************************)
\* Results recorded before and between the report builds of SpecRound.
MaxRoundResults == 2

\* Reports one tool builds and saves in SpecRound.
MaxSaves == 2

\* Clock readings <<day, microsecond>> at which a tool is constructed.
ClockReadings == {<<1, 0>>, <<1, 500000>>, <<2, 0>>}

\* The clock reading at which the tool of SpecRound is constructed.
ToolStart == <<1, 500000>>

\* Run durations in seconds.
Durations == {3, 4}

\* datetime.isoformat(): the fraction is left out when the microsecond is 0.
isoformat(t) ==
    CASE t = <<1, 0>>      -> "2024-01-01T10:00:00"
      [] t = <<1, 500000>> -> "2024-01-01T10:00:00.500000"
      [] OTHER             -> "2024-01-02T09:00:00"

\* dict.get(key, default).
Get(d, key, default) == IF key \in DOMAIN d THEN d[key] ELSE default

\* The empty dictionary.
EmptyDict == <<>>

\* The entries of a result that both tools serialise.
ResultJson(r) ==
    [name |-> r.name, status |-> r.status, message |-> r.message,
     details |-> r.details]

\* The dictionary DiagnosticTool.generate_report serialises.
BasicJson(rep, start_time, duration) ==
    [timestamp |-> isoformat(start_time),
     duration_seconds |-> duration,
     platform |-> [system |-> "Linux"],
     summary |-> [total |-> rep.total,
                  ok |-> rep.by_status["ok"],
                  warning |-> rep.by_status["warning"],
                  fail |-> rep.by_status["fail"],
                  info |-> rep.by_status["info"],
                  health |-> rep.health],
     results |-> [i \in DOMAIN rep.all_results |-> ResultJson(rep.all_results[i])]]

\* A category bucket with its results serialised.
BucketJson(bucket) ==
    [category |-> bucket.category,
     items |-> [i \in DOMAIN bucket.items |-> ResultJson(bucket.items[i])]]

\* The dictionary ThoroughDiagnosticTool.generate_json_report serialises.
ThoroughJson(rep, start_time, duration) ==
    [diagnostic_metadata |-> [tool_version |-> "2.1",
                              timestamp |-> isoformat(start_time),
                              duration_seconds |-> duration],
     system_info |-> [platform |-> "Linux"],
     summary |-> [total_checks |-> rep.total,
                  by_status |-> rep.by_status,
                  overall_health |-> rep.health],
     results_by_category |->
         [i \in DOMAIN rep.results_by_category |->
             BucketJson(rep.results_by_category[i])],
     all_results |->
         [i \in DOMAIN rep.all_results |->
             ResultJson(rep.all_results[i]) @@
             ("category" :> rep.all_results[i].category)]]

\* Mutant of ReportJson: the count of reports built so far leaks into the
\* summary's total.
ReportJson_CountsBuilds(self, start_time, duration) ==
    LET doc == IF variant[self] = "basic"
               THEN BasicJson(generate_report(self), start_time, duration)
               ELSE ThoroughJson(generate_report(self), start_time, duration)
        key == IF variant[self] = "basic" THEN "total" ELSE "total_checks"
    IN  [doc EXCEPT !.summary[key] = @ + Len(reports[self])]

\* The document a tool writes for its current state.
ReportJson(self, start_time, duration) ==
    IF variant[self] = "basic"
    THEN BasicJson(generate_report(self), start_time, duration)
    ELSE ThoroughJson(generate_report(self), start_time, duration)

\* A caller records one result; reports may have been built before.
CallerAddResult(self, status) ==
    /\ pc[self] = "new"
    /\ Len(results[self]) < MaxRoundResults
    /\ status \in Statuses(variant[self])
    /\ add_result(self, "Disk Space", status, "probe", "None", DefaultCategory)
    /\ UNCHANGED <<variant, platform, args, pc, idx, err_log, invoked, reports, exit_code>>
    /\ UNCHANGED aggVars

\* generate_report / generate_json_report with an output file: the report
\* is built and written as the next file of the report directory.
GenerateAndSave(self, start_time, duration) ==
    /\ pc[self] = "new"
    /\ Len(reports[self]) < MaxSaves
    /\ reports' = [reports EXCEPT ![self] = Append(@, generate_report(self))]
    /\ files' = Append(files, [path |-> Len(files) + 1,
                               readable |-> TRUE,
                               data |-> ReportJson(self, start_time, duration)])
    /\ UNCHANGED <<variant, platform, args, pc, idx, results, categories, err_log, invoked, exit_code>>
    /\ UNCHANGED <<agg_pc, load_returns, agg_reports, analysis>>

(***************************************************************************)
(* TestAggregator: loading.  files is the sequence of report files in the  *)
(* order main hands them to load_report; load_returns holds what           *)
(* load_report returned for the files processed so far.                    *)
(***************************************************************************)
\* Mutant of load_report: a file that cannot be read empties the list.
load_report_ResetOnError(loaded, f) ==
    IF f.readable
    THEN [reports |-> Append(loaded, [file |-> f.path, data |-> f.data]),
          returns |-> TRUE]
    ELSE [reports |-> <<>>, returns |-> FALSE]

\* TestAggregator.load_report: the list of loaded reports afterwards and
\* the value returned.
load_report(loaded, f) ==
    IF f.readable
    THEN [reports |-> Append(loaded, [file |-> f.path, data |-> f.data]),
          returns |-> TRUE]
    ELSE [reports |-> loaded, returns |-> FALSE]

\* main loads the next file.
LoadReport ==
    /\ agg_pc = "loading"
    /\ Len(load_returns) < Len(files)
    /\ LET out == load_report(agg_reports, files[Len(load_returns) + 1])
       IN  /\ agg_reports' = out.reports
           /\ load_returns' = Append(load_returns, out.returns)
    /\ UNCHANGED <<files, agg_pc, analysis>>
    /\ UNCHANGED toolVars

\* TestAggregator.load_directory: load_report on each file in turn; the
\* loaded reports afterwards and the value of each call.
RECURSIVE load_directory(_, _, _)
load_directory(loaded, returns, fs) ==
    IF fs = <<>> THEN [reports |-> loaded, returns |-> returns]
    ELSE LET out == load_report(loaded, Head(fs))
         IN  load_directory(out.reports, Append(returns, out.returns), Tail(fs))

\* main loads the whole directory.
LoadDirectory ==
    /\ agg_pc = "loading"
    /\ load_returns = <<>>
    /\ files # <<>>
    /\ LET out == load_directory(agg_reports, <<>>, files)
       IN  /\ agg_reports' = out.reports
           /\ load_returns' = out.returns
    /\ UNCHANGED <<files, agg_pc, analysis>>
    /\ UNCHANGED toolVars

NextRound ==
    \/ \E status \in Statuses("thorough") : CallerAddResult("tool1", status)
    \/ \E duration \in Durations :
            GenerateAndSave("tool1", ToolStart, duration)
    \/ LoadReport

\* A tool records results and saves reports; the trend analyzer loads the
\* files written so far.
SpecRound == Init /\ [][NextRound]_vars

\* What a tool wrote into a document, read at the keys of its own layout.
Written(v, doc) ==
    IF v = "basic"
    THEN [timestamp |-> doc.timestamp,
          duration |-> doc.duration_seconds,
          health |-> doc.summary.health,
          ok |-> doc.summary.ok,
          warning |-> doc.summary.warning,
          fail |-> doc.summary.fail,
          total |-> doc.summary.total,
          results |-> [i \in DOMAIN doc.results |->
                          <<doc.results[i].name, doc.results[i].status>>]]
    ELSE [timestamp |-> doc.diagnostic_metadata.timestamp,
          duration |-> doc.diagnostic_metadata.duration_seconds,
          health |-> doc.summary.overall_health,
          ok |-> Get(doc.summary.by_status, "OK", 0),
          warning |-> Get(doc.summary.by_status, "WARNING", 0),
          fail |-> Get(doc.summary.by_status, "FAIL", 0),
          total |-> doc.summary.total_checks,
          results |-> [i \in DOMAIN doc.all_results |->
                          <<doc.all_results[i].name, doc.all_results[i].status>>]]

\* What the trend analyzer reads from a loaded document.
AnalyzerView(data) ==
    LET summary == Get(data, "summary", EmptyDict)
        rs == Get(data, "results", <<>>)
    IN  [timestamp |-> Get(data, "timestamp", "Unknown"),
         duration |-> Get(data, "duration_seconds", 0),
         health |-> Get(summary, "health", "Unknown"),
         ok |-> Get(summary, "ok", 0),
         warning |-> Get(summary, "warning", 0),
         fail |-> Get(summary, "fail", 0),
         total |-> Get(summary, "total", 0),
         results |-> [i \in DOMAIN rs |->
                         <<Get(rs[i], "name", "Unknown"), Get(rs[i], "status", "")>>]]

\* C11: every report a tool saved and the trend analyzer loaded shows the
\* analyzer, at the keys it reads, the start timestamp, duration, overall
\* health, status counts and flat result list that the tool wrote.
C11_AnalyzerReadsWhatToolWrote ==
    \A i \in DOMAIN agg_reports :
        AnalyzerView(agg_reports[i].data)
            = Written(variant["tool1"], files[agg_reports[i].file].data)

\* The same statement for the reports of the basic tool alone.
C11_BasicReportsReadBack ==
    variant["tool1"] = "basic" => C11_AnalyzerReadsWhatToolWrote

\* A basic report with a FAIL result has been saved and loaded.
C11_BasicWitness ==
    /\ variant["tool1"] = "basic"
    /\ \E i \in DOMAIN agg_reports :
          /\ AnalyzerView(agg_reports[i].data).health = "CRITICAL"
          /\ Len(AnalyzerView(agg_reports[i].data).results) = 2

\* The result lists of a saved document, whichever tool wrote it.
ResultLists(doc) ==
    [k \in DOMAIN doc \cap {"results", "all_results", "results_by_category"} |-> doc[k]]

\* Two saved documents were built from the same recorded results: results
\* are only ever appended, so the lists the builds saw are equal exactly
\* when they are equally long.
SameRecordedResults(doc1, doc2) ==
    Len(Written(variant["tool1"], doc1).results)
        = Len(Written(variant["tool1"], doc2).results)

StringOrder ==
    <<"", "2024-01-01T10:00:00", "2024-01-01T10:00:00.500000", "2024-01-02T09:00:00",
      "yesterday">>

\* a < b on strings.
StrLess(a, b) ==
    (CHOOSE i \in DOMAIN StringOrder : StringOrder[i] = a)
        < (CHOOSE i \in DOMAIN StringOrder : StringOrder[i] = b)

\* The sort key of a loaded report.
SortKey(r) == Get(r.data, "timestamp", "")

\* All but the last element.
Front(s) == SubSeq(s, 1, Len(s) - 1)

\* Mutant of InsertByKey: the report goes before the reports with an equal
\* key (an unstable sort).
RECURSIVE InsertByKey_BeforeEqual(_, _)
InsertByKey_BeforeEqual(sorted, r) ==
    IF sorted = <<>> THEN <<r>>
    ELSE IF ~StrLess(SortKey(Last(sorted)), SortKey(r))
         THEN Append(InsertByKey_BeforeEqual(Front(sorted), r), Last(sorted))
         ELSE Append(sorted, r)

\* list.sort is stable: a report goes behind every report of the sorted
\* prefix whose key is not greater than its own.
RECURSIVE InsertByKey(_, _)
InsertByKey(sorted, r) ==
    IF sorted = <<>> THEN <<r>>
    ELSE IF StrLess(SortKey(r), SortKey(Last(sorted)))
         THEN Append(InsertByKey(Front(sorted), r), Last(sorted))
         ELSE Append(sorted, r)

\* self.reports.sort(key=lambda r: r['data'].get('timestamp', '')).
RECURSIVE SortByTimestamp(_)
SortByTimestamp(rs) ==
    IF rs = <<>> THEN <<>>
    ELSE InsertByKey(SortByTimestamp(Front(rs)), Last(rs))

\* _get_date_range: the first and last non-empty timestamps.
DateRange(rs) ==
    LET dated == SelectSeq(rs, LAMBDA r : SortKey(r) # "")
    IN  IF dated = <<>> THEN <<"N/A">>
        ELSE <<SortKey(dated[1]), SortKey(Last(dated))>>

\* _health_score.
HealthOrdinal(health) ==
    CASE health = "EXCELLENT"       -> 4
      [] health = "GOOD"            -> 3
      [] health = "NEEDS ATTENTION" -> 2
      [] health = "CRITICAL"        -> 1
      [] OTHER                      -> 0

\* The health the trend reads from a report.
HealthOf(r) == Get(Get(r.data, "summary", EmptyDict), "health", "")

\* Mutant of HealthTrend: the last report is compared with the one before
\* it instead of the first.
HealthTrend_LastTwo(rs) ==
    IF Len(rs) > 1
    THEN LET first_health == HealthOf(rs[Len(rs) - 1])
             last_health == HealthOf(Last(rs))
         IN  IF last_health = first_health THEN "Stable"
             ELSE IF HealthOrdinal(last_health) > HealthOrdinal(first_health)
                  THEN "Improving"
                  ELSE "Degrading"
    ELSE "none"

\* Mutant of HealthTrend: the trend is printed for a single report too.
HealthTrend_FromOne(rs) ==
    IF Len(rs) > 0
    THEN LET first_health == HealthOf(rs[1])
             last_health == HealthOf(Last(rs))
         IN  IF last_health = first_health THEN "Stable"
             ELSE IF HealthOrdinal(last_health) > HealthOrdinal(first_health)
                  THEN "Improving"
                  ELSE "Degrading"
    ELSE "none"

\* The "Status:" line of _analyze_health_trend ("none" when not printed).
HealthTrend(rs) ==
    IF Len(rs) > 1
    THEN LET first_health == HealthOf(rs[1])
             last_health == HealthOf(Last(rs))
         IN  IF last_health = first_health THEN "Stable"
             ELSE IF HealthOrdinal(last_health) > HealthOrdinal(first_health)
                  THEN "Improving"
                  ELSE "Degrading"
    ELSE "none"

\* The sorted() cut of _analyze_common_issues: "[:5]".
TopIssues == 5

\* counts[name] += 1 on a defaultdict(int), kept as a sequence of
\* [issue, count] entries in insertion order of the keys.
CountIssue(counts, name) ==
    IF \E i \in DOMAIN counts : counts[i].issue = name
    THEN [i \in DOMAIN counts |->
            IF counts[i].issue = name
            THEN [counts[i] EXCEPT !.count = @ + 1]
            ELSE counts[i]]
    ELSE Append(counts, [issue |-> name, count |-> 1])

\* The results of one report with the given status, counted by name.
RECURSIVE CountResults(_, _, _)
CountResults(counts, rs, status) ==
    IF rs = <<>> THEN counts
    ELSE CountResults(
            IF Get(Head(rs), "status", "") = status
            THEN CountIssue(counts, Get(Head(rs), "name", "Unknown"))
            ELSE counts,
            Tail(rs), status)

\* The warnings / failures dictionary after the scan of all reports.
RECURSIVE IssueCounts(_, _, _)
IssueCounts(counts, reps, status) ==
    IF reps = <<>> THEN counts
    ELSE IssueCounts(CountResults(counts, Get(Head(reps).data, "results", <<>>), status),
                     Tail(reps), status)

\* Mutant of InsertByCount: an entry goes before the entries with an equal
\* count.
RECURSIVE InsertByCount_BeforeEqual(_, _)
InsertByCount_BeforeEqual(ranked, e) ==
    IF ranked = <<>> THEN <<e>>
    ELSE IF e.count >= Last(ranked).count
         THEN Append(InsertByCount_BeforeEqual(Front(ranked), e), Last(ranked))
         ELSE Append(ranked, e)

\* sorted(..., key=lambda x: -x[1]) is stable: an entry goes behind every
\* entry of the ranked prefix whose count is not smaller than its own.
RECURSIVE InsertByCount(_, _)
InsertByCount(ranked, e) ==
    IF ranked = <<>> THEN <<e>>
    ELSE IF e.count > Last(ranked).count
         THEN Append(InsertByCount(Front(ranked), e), Last(ranked))
         ELSE Append(ranked, e)

RECURSIVE RankByCount(_)
RankByCount(counts) ==
    IF counts = <<>> THEN <<>>
    ELSE InsertByCount(RankByCount(Front(counts)), Last(counts))

\* f"{(count / n) * 100:.1f}": the rate in tenths of a percent, rounded to
\* the nearest tenth.
Percent(count, n) == (2000 * count + n) \div (2 * n)

\* Mutant of CommonIssues: the ranking is not cut.
CommonIssues_Uncut(reps, status) ==
    LET ranked == RankByCount(IssueCounts(<<>>, reps, status))
    IN  [i \in DOMAIN ranked |->
            [issue |-> ranked[i].issue, count |-> ranked[i].count,
             of |-> Len(reps), pct |-> Percent(ranked[i].count, Len(reps))]]

\* The lines printed under "Most Common Failures" / "Most Common Warnings".
CommonIssues(reps, status) ==
    LET ranked == RankByCount(IssueCounts(<<>>, reps, status))
        shown == SubSeq(ranked, 1, IF Len(ranked) < TopIssues THEN Len(ranked) ELSE TopIssues)
    IN  [i \in DOMAIN shown |->
            [issue |-> shown[i].issue, count |-> shown[i].count,
             of |-> Len(reps), pct |-> Percent(shown[i].count, Len(reps))]]

\* The duration series of the sorted reports.
DurationSeries(reps) ==
    [i \in DOMAIN reps |-> Get(reps[i].data, "duration_seconds", 0)]

RECURSIVE Sum(_)
Sum(s) == IF s = <<>> THEN 0 ELSE Head(s) + Sum(Tail(s))

\* Mutant of PerformanceTrend: the series is split after the first entry.
PerformanceTrend_SplitAtOne(durations) ==
    IF Len(durations) > 1
    THEN LET first_half == SubSeq(durations, 1, 1)
             second_half == SubSeq(durations, 2, Len(durations))
             second == 10 * Sum(second_half) * Len(first_half)
             first == Sum(first_half) * Len(second_half)
         IN  IF second < 9 * first THEN "improving"
             ELSE IF second > 11 * first THEN "degrading"
             ELSE "stable"
    ELSE "none"

\* The verdict of _analyze_performance ("none" when not printed).  The
\* durations are whole seconds; avg_second < avg_first * 0.9 is compared
\* after multiplying both sides by 10 * len(first_half) * len(second_half).
PerformanceTrend(durations) ==
    IF Len(durations) > 1
    THEN LET half == Len(durations) \div 2
             first_half == SubSeq(durations, 1, half)
             second_half == SubSeq(durations, half + 1, Len(durations))
             second == 10 * Sum(second_half) * Len(first_half)
             first == Sum(first_half) * Len(second_half)
         IN  IF second < 9 * first THEN "improving"
             ELSE IF second > 11 * first THEN "degrading"
             ELSE "stable"
    ELSE "none"

\* _status_score.
status_score(status) ==
    CASE status = "OK"      -> 4
      [] status = "INFO"    -> 3
      [] status = "WARNING" -> 2
      [] status = "FAIL"    -> 1
      [] OTHER              -> 0

\* d[key] = value on a dictionary kept as a sequence of [name, status]
\* entries in insertion order of the keys.
DictSet(d, name, status) ==
    IF \E i \in DOMAIN d : d[i].name = name
    THEN [i \in DOMAIN d |->
            IF d[i].name = name THEN [d[i] EXCEPT !.status = status] ELSE d[i]]
    ELSE Append(d, [name |-> name, status |-> status])

\* {r['name']: r['status'] for r in results}.
RECURSIVE Lookup(_, _)
Lookup(d, rs) ==
    IF rs = <<>> THEN d
    ELSE Lookup(DictSet(d, Head(rs).name, Head(rs).status), Tail(rs))

\* lookup[name], for a name among the keys.
StatusIn(d, name) == d[CHOOSE i \in DOMAIN d : d[i].name = name].status

\* Mutant of FeatureStatus: the latest report is compared with the first.
FeatureStatus_AgainstFirst(reps) ==
    IF Len(reps) < 2 THEN [printed |-> FALSE, improved |-> <<>>, degraded |-> <<>>]
    ELSE LET latest_lookup == Lookup(<<>>, Get(Last(reps).data, "results", <<>>))
             previous_lookup == Lookup(<<>>, Get(reps[1].data, "results", <<>>))
             changed == SelectSeq(latest_lookup, LAMBDA e :
                            /\ \E i \in DOMAIN previous_lookup : previous_lookup[i].name = e.name
                            /\ StatusIn(previous_lookup, e.name) # e.status)
             better(e) == status_score(e.status) > status_score(StatusIn(previous_lookup, e.name))
             names(es) == [i \in DOMAIN es |-> es[i].name]
         IN  [printed |-> TRUE,
              improved |-> names(SelectSeq(changed, better)),
              degraded |-> names(SelectSeq(changed, LAMBDA e : ~better(e)))]

\* _analyze_feature_status: the names listed as improved and as degraded
\* (printed is FALSE when fewer than two reports are loaded).
FeatureStatus(reps) ==
    IF Len(reps) < 2 THEN [printed |-> FALSE, improved |-> <<>>, degraded |-> <<>>]
    ELSE LET latest_lookup == Lookup(<<>>, Get(Last(reps).data, "results", <<>>))
             previous_lookup == Lookup(<<>>, Get(reps[Len(reps) - 1].data, "results", <<>>))
             changed == SelectSeq(latest_lookup, LAMBDA e :
                            /\ \E i \in DOMAIN previous_lookup : previous_lookup[i].name = e.name
                            /\ StatusIn(previous_lookup, e.name) # e.status)
             better(e) == status_score(e.status) > status_score(StatusIn(previous_lookup, e.name))
             names(es) == [i \in DOMAIN es |-> es[i].name]
         IN  [printed |-> TRUE,
              improved |-> names(SelectSeq(changed, better)),
              degraded |-> names(SelectSeq(changed, LAMBDA e : ~better(e)))]

\* The elements of a sequence.
Range(s) == {s[i] : i \in DOMAIN s}

\* The "Diagnostic Run Time" lines of _analyze_performance: the average is
\* total / count, printed with the minimum and the maximum when the series
\* is not empty.
RunTime(durations) ==
    IF durations # <<>>
    THEN [printed |-> TRUE,
          total |-> Sum(durations), count |-> Len(durations),
          min |-> CHOOSE d \in Range(durations) : \A e \in Range(durations) : d <= e,
          max |-> CHOOSE d \in Range(durations) : \A e \in Range(durations) : d >= e]
    ELSE [printed |-> FALSE]

\* A JSON document that is an array is held under the key "json_array";
\* every other document is an object, held as the function of its keys.
JsonArray(items) == [json_array |-> items]

\* Whether r['data'] has a get method.
IsObject(data) == "json_array" \notin DOMAIN data

\* The strings datetime.fromisoformat parses, among those of StringOrder.
IsoStrings == {isoformat(t) : t \in {<<1, 0>>, <<1, 500000>>, <<2, 0>>}}

\* The first and last entries of dates in _get_date_range.
DateEnds(rs) ==
    LET dated == SelectSeq(rs, LAMBDA r : SortKey(r) # "")
    IN  IF dated = <<>> THEN {} ELSE {SortKey(dated[1]), SortKey(Last(dated))}

\* The results _analyze_feature_status builds its two lookups from.
LookupResults(rs) ==
    IF Len(rs) < 2 THEN <<>>
    ELSE Get(Last(rs).data, "results", <<>>) \o Get(rs[Len(rs) - 1].data, "results", <<>>)

\* The exception that ends analyze, "none" when it returns (sorted is the
\* list as the sort leaves it when no key raises): the sort key
\* calls get on every document, _get_date_range parses the two ends of
\* the dates, and the lookups of _analyze_feature_status index every result
\* of the last two reports by 'name' and 'status'.
AnalyzeRaises(reps, sorted) ==
    IF \E i \in DOMAIN reps : ~IsObject(reps[i].data) THEN "AttributeError"
    ELSE IF \E d \in DateEnds(sorted) : d \notin IsoStrings THEN "ValueError"
    ELSE IF \E r \in Range(LookupResults(sorted)) : {"name", "status"} \ DOMAIN r # {}
         THEN "KeyError"
    ELSE "none"

\* analyze with reports loaded: the list is sorted in place and the four
\* analyses print their findings.  An exception is caught nowhere: it ends
\* analyze and the process; one raised by a sort key leaves the list as it
\* was.
Analyze ==
    /\ agg_pc = "loading"
    /\ Len(load_returns) = Len(files)
    /\ agg_reports # <<>>
    /\ LET sorted == SortByTimestamp(agg_reports)
           raised == AnalyzeRaises(agg_reports, sorted)
           durations == DurationSeries(sorted)
       IN  IF raised = "none"
           THEN /\ agg_reports' = sorted
                /\ analysis' = [done |-> TRUE,
                                date_range |-> DateRange(sorted),
                                health_trend |-> HealthTrend(sorted),
                                failures |-> CommonIssues(sorted, "FAIL"),
                                warnings |-> CommonIssues(sorted, "WARNING"),
                                run_time |-> RunTime(durations),
                                performance |-> PerformanceTrend(durations),
                                features |-> FeatureStatus(sorted)]
                /\ agg_pc' = "analyzed"
           ELSE /\ agg_reports' = IF raised = "AttributeError" THEN agg_reports ELSE sorted
                /\ analysis' = [done |-> FALSE, raised |-> raised]
                /\ agg_pc' = "raised"
    /\ UNCHANGED <<files, load_returns>>
    /\ UNCHANGED toolVars

\* main with nothing loaded: "No reports loaded. Exiting." and exit code 1.
NoReports ==
    /\ agg_pc = "loading"
    /\ Len(load_returns) = Len(files)
    /\ agg_reports = <<>>
    /\ agg_pc' = "exited"
    /\ UNCHANGED <<files, load_returns, agg_reports, analysis>>
    /\ UNCHANGED toolVars

(***************************************************************************)
(* The report directory the trend analyzer is run on.  Its reports are     *)
(* documents of the basic tool, built by BasicJson from a list of results; *)
(* a report may have lost its timestamp entry, and a file may be           *)
(* unreadable or hold no JSON.                                             *)
(***************************************************************************)
\* Files in the directory of SpecTrend.
MaxTrendFiles == 3

\* A recorded result of the basic tool.
Result(name, status) == DiagnosticResult("basic", name, status, "probe", "None", DefaultCategory)

\* Result lists with the four healths of the basic tool.
HealthSamples ==
    {<<>>,
     <<Result("Disk Space", "WARNING")>>,
     [i \in 1..4 |-> Result("Disk Space", "WARNING")],
     <<Result("Disk Space", "FAIL")>>}

\* A document without its timestamp entry.
WithoutTimestamp(doc) == [k \in DOMAIN doc \ {"timestamp"} |-> doc[k]]

\* The document of a run of the basic tool.
ReportDoc(rs, start_time, duration, stamped) ==
    IF stamped THEN BasicJson(BasicReport(rs), start_time, duration)
    ELSE WithoutTimestamp(BasicJson(BasicReport(rs), start_time, duration))

\* A report file appears in the directory before the analyzer starts.
WriteReportFile(rs, start_time, duration, stamped, cap) ==
    /\ agg_pc = "loading"
    /\ load_returns = <<>>
    /\ Len(files) < cap
    /\ files' = Append(files, [path |-> Len(files) + 1,
                               readable |-> TRUE,
                               data |-> ReportDoc(rs, start_time, duration, stamped)])
    /\ UNCHANGED <<agg_pc, load_returns, agg_reports, analysis>>
    /\ UNCHANGED toolVars

\* A file that cannot be opened or parsed appears in the directory.
WriteUnreadableFile(cap) ==
    /\ agg_pc = "loading"
    /\ load_returns = <<>>
    /\ Len(files) < cap
    /\ files' = Append(files, [path |-> Len(files) + 1, readable |-> FALSE])
    /\ UNCHANGED <<agg_pc, load_returns, agg_reports, analysis>>
    /\ UNCHANGED toolVars

\* The analyzer started on its own: the tools of the model stay as
\* constructed, and one class of them is enough.
InitAnalyzer == Init /\ variant["tool1"] = "basic"

NextTrend ==
    \/ \E rs \in HealthSamples, start_time \in ClockReadings, stamped \in BOOLEAN :
            WriteReportFile(rs, start_time, 3, stamped, MaxTrendFiles)
    \/ WriteUnreadableFile(MaxTrendFiles)
    \/ LoadReport
    \/ Analyze
    \/ NoReports

\* The analyzer run on a directory of reports that differ in timestamp and
\* health.
SpecTrend == InitAnalyzer /\ [][NextTrend]_vars

\* load_directory's return value: the number of files load_report returned
\* True for.
LoadCount == Cardinality({i \in DOMAIN load_returns : load_returns[i]})

\* The files processed so far that are readable, in the order processed.
ReadableProcessed ==
    SelectSeq(SubSeq(files, 1, Len(load_returns)), LAMBDA f : f.readable)

\* C13: load_report returns False for a file it cannot read or parse and
\* True otherwise; the loaded reports are exactly the readable files among
\* those processed, once each with their content (in processing order until
\* analyze sorts them), and the count of load_directory is their number.
C13_LoadedAreTheReadableFiles ==
    /\ \A i \in DOMAIN load_returns : load_returns[i] = files[i].readable
    /\ Len(agg_reports) = Len(ReadableProcessed)
    /\ \A i \in DOMAIN ReadableProcessed :
          \E j \in DOMAIN agg_reports :
              /\ agg_reports[j].file = ReadableProcessed[i].path
              /\ agg_reports[j].data = ReadableProcessed[i].data
              /\ agg_pc = "loading" => j = i
    /\ LoadCount = Len(agg_reports)

\* An unreadable file between two reports: both reports are loaded.
C13_Witness ==
    /\ Len(files) = 3
    /\ Len(load_returns) = 3
    /\ files[1].readable /\ ~files[2].readable /\ files[3].readable
    /\ load_returns = <<TRUE, FALSE, TRUE>>
    /\ Len(agg_reports) = 2

\* A report carries a timestamp entry.
HasTimestamp(r) == "timestamp" \in DOMAIN r.data

\* The clock reading a report's timestamp was formatted from.
StartOf(r) == CHOOSE t \in ClockReadings : isoformat(t) = r.data.timestamp

\* Clock reading s is earlier than clock reading t.
Earlier(s, t) == s[1] < t[1] \/ (s[1] = t[1] /\ s[2] < t[2])

\* C14: after analyze the reports stand in ascending order of their start
\* times; reports with equal timestamps keep their load order; a report
\* without timestamp stands before every report that has one (and such
\* reports keep their load order among themselves).
C14_SortedByTimestampStable ==
    agg_pc = "analyzed" =>
        \A i, j \in DOMAIN agg_reports :
            i < j =>
                LET a == agg_reports[i]
                    b == agg_reports[j]
                IN  /\ HasTimestamp(b) \/ ~HasTimestamp(a)
                    /\ HasTimestamp(a) /\ HasTimestamp(b) => ~Earlier(StartOf(b), StartOf(a))
                    /\ HasTimestamp(a) /\ HasTimestamp(b) /\ StartOf(a) = StartOf(b)
                          => a.file < b.file
                    /\ ~HasTimestamp(a) /\ ~HasTimestamp(b) => a.file < b.file

\* Three reports loaded as (second day, no timestamp, second day) are
\* analyzed in the order 2, 1, 3.
C14_Witness ==
    /\ agg_pc = "analyzed"
    /\ Len(agg_reports) = 3
    /\ agg_reports[1].file = 2 /\ agg_reports[2].file = 1 /\ agg_reports[3].file = 3
    /\ ~HasTimestamp(agg_reports[1])
    /\ HasTimestamp(agg_reports[2]) /\ HasTimestamp(agg_reports[3])
    /\ StartOf(agg_reports[2]) = StartOf(agg_reports[3])

\* The position of a health among the four healths, worst first.
HealthRankOf(r) ==
    CHOOSE k \in 1..4 :
        <<"CRITICAL", "NEEDS ATTENTION", "GOOD", "EXCELLENT">>[k] = r.data.summary.health

\* C15: with at least two reports the trend is decided by the healths of
\* the first and the last report of the sorted sequence alone: Stable when
\* they rank equal, Improving when the last ranks higher, Degrading
\* otherwise; with fewer than two reports no trend is printed.
C15_TrendFromFirstAndLast ==
    agg_pc = "analyzed" =>
        LET first == HealthRankOf(agg_reports[1])
            last == HealthRankOf(agg_reports[Len(agg_reports)])
        IN  analysis.health_trend =
                IF Len(agg_reports) < 2 THEN "none"
                ELSE IF last = first THEN "Stable"
                ELSE IF last > first THEN "Improving"
                ELSE "Degrading"

\* EXCELLENT, GOOD, EXCELLENT in sorted order: the trend is Stable.
C15_Witness ==
    /\ agg_pc = "analyzed"
    /\ Len(agg_reports) = 3
    /\ agg_reports[1].data.summary.health = "EXCELLENT"
    /\ agg_reports[2].data.summary.health = "GOOD"
    /\ agg_reports[3].data.summary.health = "EXCELLENT"
    /\ agg_reports[1].file = 3
    /\ analysis.health_trend = "Stable"

(***************************************************************************)
(* The analyzer run on reports that differ in duration.                    *)
(***************************************************************************)
\* Files in the directory of SpecPerf.
MaxPerfFiles == 4

\* Durations of the runs, in seconds.
PerfDurations == {9, 10, 11, 12}

\* Start times of the runs.
PerfClock == {<<1, 0>>, <<2, 0>>}

NextPerf ==
    \/ \E start_time \in PerfClock, duration \in PerfDurations :
            WriteReportFile(<<>>, start_time, duration, TRUE, MaxPerfFiles)
    \/ LoadReport
    \/ Analyze
    \/ NoReports

SpecPerf == InitAnalyzer /\ [][NextPerf]_vars

\* The sum of the durations of the sorted reports at the given positions.
RECURSIVE DurationSum(_)
DurationSum(positions) ==
    IF positions = {} THEN 0
    ELSE LET i == CHOOSE p \in positions : TRUE
         IN  agg_reports[i].data.duration_seconds + DurationSum(positions \ {i})

\* C20: with n > 1 sorted reports, h = n div 2, the trend is taken from
\* the mean of the first h durations and the mean of the other n - h:
\* improving when the second mean is below 0.9 times the first, degrading
\* when it is above 1.1 times the first, stable otherwise.
C20_PerformanceTrendByHalves ==
    agg_pc = "analyzed" =>
        LET n == Len(agg_reports)
            h == n \div 2
            first == DurationSum(1..h)
            second == DurationSum((h + 1)..n)
        IN  analysis.performance =
                IF n < 2 THEN "none"
                ELSE IF 10 * second * h < 9 * first * (n - h) THEN "improving"
                ELSE IF 10 * second * h > 11 * first * (n - h) THEN "degrading"
                ELSE "stable"

\* Three reports sorted to the durations 10, 9, 12: the first entry against
\* the mean 10.5 of the other two is stable, and the loaded order differs
\* from the sorted one.
C20_Witness ==
    /\ agg_pc = "analyzed"
    /\ Len(agg_reports) = 3
    /\ DurationSeries(agg_reports) = <<10, 9, 12>>
    /\ agg_reports[1].file # 1
    /\ analysis.performance = "stable"

(***************************************************************************)
(* The analyzer run on reports that differ in their results.               *)
(***************************************************************************)
\* Files plus results in the directory of SpecIssues.
MaxIssueSize == 7

\* The names of the checks.  The analyzer only compares names for equality,
\* so the k-th name to occur in a directory is always the k-th of this list.
IssueNames == <<"Disk Space", "Database", "Configuration", "Logs", "API", "LLM Backends">>

\* The results of a file (none for an unreadable one).
FileResults(f) == IF f.readable THEN f.data.results ELSE <<>>

\* The number of results in all report files.
TotalResults == Sum([i \in DOMAIN files |-> Len(FileResults(files[i]))])

UsedNames ==
    UNION {{FileResults(files[i])[j].name : j \in DOMAIN FileResults(files[i])} :
                i \in DOMAIN files}

\* The names a further result may carry.
NextNames(names) ==
    {names[k] : k \in {k \in DOMAIN names : k <= Cardinality(UsedNames) + 1}}

\* The document of the same run with one more result recorded.
WithResult(doc, r) ==
    LET rs == Append(doc.results, r)
    IN  [doc EXCEPT !.results = rs,
                    !.summary = BasicJson(BasicReport(rs), <<1, 0>>, 0).summary]

\* The run that wrote the newest report file recorded one more result.
AppendResult(name, status, cap) ==
    /\ agg_pc = "loading"
    /\ load_returns = <<>>
    /\ files # <<>>
    /\ Last(files).readable
    /\ TotalResults < cap
    /\ files' = [files EXCEPT ![Len(files)].data = WithResult(@, Result(name, status))]
    /\ UNCHANGED <<agg_pc, load_returns, agg_reports, analysis>>
    /\ UNCHANGED toolVars

\* No report in the directory is older than the others: a report stamped
\* with the first day is the last one written.
NoEarlyFile ==
    \A i \in DOMAIN files : files[i].readable => files[i].data.timestamp = isoformat(<<2, 0>>)

\* The warnings in the directory.
WarningResults ==
    Sum([i \in DOMAIN files |->
            Len(SelectSeq(FileResults(files[i]), LAMBDA r : r.status = "WARNING"))])

\* The directory holds at most one WARNING result, and a passing result is
\* recorded first in the directory or not at all.
NextIssues ==
    \/ \E start_time \in PerfClock :
            /\ load_returns = <<>>
            /\ NoEarlyFile
            /\ WriteReportFile(<<>>, start_time, 3, TRUE, MaxIssueSize - TotalResults)
    \/ /\ load_returns = <<>>
       /\ \E status \in {"FAIL", "WARNING", "OK"} :
            /\ status = "WARNING" => WarningResults = 0
            /\ status = "OK" => TotalResults = 0
            /\ \E name \in NextNames(IssueNames) :
                    AppendResult(name, status, MaxIssueSize - Len(files))
    \/ LoadDirectory
    \/ Analyze
    \/ NoReports

SpecIssues == InitAnalyzer /\ [][NextIssues]_vars

\* The places <<report, result>> of the sorted reports where a result with
\* the given status stands.
Occurrences(status) ==
    UNION {{<<i, j>> : j \in {j \in DOMAIN agg_reports[i].data.results :
                                agg_reports[i].data.results[j].status = status}} :
                i \in DOMAIN agg_reports}

NameAt(p) == agg_reports[p[1]].data.results[p[2]].name

\* The occurrences of one name with the given status.
OccurrencesOf(name, status) == {p \in Occurrences(status) : NameAt(p) = name}

\* The names that occur with the given status.
NamesWith(status) == {NameAt(p) : p \in Occurrences(status)}

\* Place p is scanned before place q.
ScannedBefore(p, q) == p[1] < q[1] \/ (p[1] = q[1] /\ p[2] < q[2])

\* The place where a name is first seen with the given status.
FirstSeen(name, status) ==
    CHOOSE p \in OccurrencesOf(name, status) :
        \A q \in OccurrencesOf(name, status) : q = p \/ ScannedBefore(p, q)

\* The names of a printed ranking.
Listed(ranking) == {ranking[i].issue : i \in DOMAIN ranking}

\* A printed ranking is the ranking of the names with the given status: at
\* most five names, each with its number of occurrences over all reports and
\* that number over the number of reports as a percentage to one decimal, in
\* descending order of the counts, and no name left out has a higher count
\* than a name listed.
RankingIsRight(ranking, status) ==
    LET names == NamesWith(status)
        n == Len(agg_reports)
    IN  /\ Len(ranking) = IF Cardinality(names) < 5 THEN Cardinality(names) ELSE 5
        /\ \A i \in DOMAIN ranking :
              LET count == Cardinality(OccurrencesOf(ranking[i].issue, status))
              IN  /\ ranking[i].issue \in names
                  /\ ranking[i].count = count
                  /\ ranking[i].of = n
                  /\ 2 * n * ranking[i].pct <= 2000 * count + n
                  /\ 2000 * count + n < 2 * n * (ranking[i].pct + 1)
        /\ \A i, j \in DOMAIN ranking :
              i < j => /\ ranking[i].issue # ranking[j].issue
                       /\ ranking[i].count >= ranking[j].count
        /\ \A name \in names \ Listed(ranking) :
              \A i \in DOMAIN ranking :
                  ranking[i].count >= Cardinality(OccurrencesOf(name, status))

\* C16: the common issues are the rankings of the names that occur with
\* status FAIL and, separately, with status WARNING, counted over all
\* loaded reports, cut to five names, in descending count order, each with
\* the rate count / number of loaded reports in percent.
C16_CommonIssuesRanking ==
    agg_pc = "analyzed" =>
        /\ RankingIsRight(analysis.failures, "FAIL")
        /\ RankingIsRight(analysis.warnings, "WARNING")

\* Four reports, one name failing in three of them: 3/4 reports, 75.0%.
C16_Witness ==
    /\ agg_pc = "analyzed"
    /\ Len(agg_reports) = 4
    /\ \E i \in DOMAIN analysis.failures :
          /\ analysis.failures[i].count = 3
          /\ analysis.failures[i].pct = 750
          /\ Cardinality({p[1] : p \in OccurrencesOf(analysis.failures[i].issue, "FAIL")}) = 3

\* Among names with equal counts the one first seen comes first, both
\* inside a printed ranking and between a listed name and one left out.
TiesInFirstSeenOrder(ranking, status) ==
    /\ \A i, j \in DOMAIN ranking :
          i < j /\ ranking[i].count = ranking[j].count
              => ScannedBefore(FirstSeen(ranking[i].issue, status),
                               FirstSeen(ranking[j].issue, status))
    /\ \A name \in NamesWith(status) \ Listed(ranking) :
          \A i \in DOMAIN ranking :
              ranking[i].count = Cardinality(OccurrencesOf(name, status))
                  => ScannedBefore(FirstSeen(ranking[i].issue, status),
                                   FirstSeen(name, status))

\* C17: names with the same count are ranked in the order in which the
\* scan of the sorted reports first saw them, and that order decides which
\* of them fall inside the top five.
C17_TiesKeepFirstSeenOrder ==
    agg_pc = "analyzed" =>
        /\ TiesInFirstSeenOrder(analysis.failures, "FAIL")
        /\ TiesInFirstSeenOrder(analysis.warnings, "WARNING")

\* Six names fail once each: the five seen first are listed in that order
\* and the sixth is left out.
C17_Witness ==
    /\ agg_pc = "analyzed"
    /\ Cardinality(NamesWith("FAIL")) = 6
    /\ \A name \in NamesWith("FAIL") : Cardinality(OccurrencesOf(name, "FAIL")) = 1
    /\ Len(analysis.failures) = 5
    /\ \E name \in NamesWith("FAIL") \ Listed(analysis.failures) :
          \A i \in DOMAIN analysis.failures :
              ScannedBefore(FirstSeen(analysis.failures[i].issue, "FAIL"),
                            FirstSeen(name, "FAIL"))

(***************************************************************************)
(* The analyzer run on a few reports whose results take every status.      *)
(***************************************************************************)
\* Files plus results in the directory of SpecDelta.
MaxDeltaSize == 5

\* The names of the checks in SpecDelta.
DeltaNames == <<"Disk Space", "Database">>

NextDelta ==
    \/ \E start_time \in PerfClock :
            /\ load_returns = <<>>
            /\ NoEarlyFile
            /\ WriteReportFile(<<>>, start_time, 3, TRUE, MaxDeltaSize - TotalResults)
    \/ /\ load_returns = <<>>
       /\ \E status \in Statuses("thorough"), name \in NextNames(DeltaNames) :
            AppendResult(name, status, MaxDeltaSize - Len(files))
    \/ LoadDirectory
    \/ Analyze
    \/ NoReports

SpecDelta == InitAnalyzer /\ [][NextDelta]_vars

\* The two most recent reports of the sorted sequence.
LatestReport == agg_reports[Len(agg_reports)]
PreviousReport == agg_reports[Len(agg_reports) - 1]

\* The names of the results of a report.
NamesIn(r) == {r.data.results[j].name : j \in DOMAIN r.data.results}

\* The status a report gives a name: that of its last result of the name.
StatusOf(name, r) ==
    LET rs == r.data.results
        last == CHOOSE j \in DOMAIN rs :
                    /\ rs[j].name = name
                    /\ \A k \in DOMAIN rs : rs[k].name = name => k <= j
    IN  rs[last].status

\* The ordinal of the four ranked statuses.
Ordinal(status) ==
    CASE status = "FAIL"    -> 1
      [] status = "WARNING" -> 2
      [] status = "INFO"    -> 3
      [] status = "OK"      -> 4

Ranked == {"FAIL", "WARNING", "INFO", "OK"}

\* The names printed as improved and as degraded.
Improved == {analysis.features.improved[i] : i \in DOMAIN analysis.features.improved}
Degraded == {analysis.features.degraded[i] : i \in DOMAIN analysis.features.degraded}

\* C18: the per-check delta looks at the two most recent reports only.  A
\* name in both whose statuses are ranked is improved exactly when the
\* ordinal of its latest status is higher, degraded exactly when it is
\* lower; a name with unchanged status, or one that is not in both reports,
\* is neither.  With fewer than two reports nothing is classified.
C18_DeltaOfLastTwoReports ==
    agg_pc = "analyzed" =>
        IF Len(agg_reports) < 2 THEN Improved = {} /\ Degraded = {}
        ELSE /\ Improved \cup Degraded \subseteq NamesIn(LatestReport) \cap NamesIn(PreviousReport)
             /\ \A name \in NamesIn(LatestReport) \cap NamesIn(PreviousReport) :
                   LET curr == StatusOf(name, LatestReport)
                       prev == StatusOf(name, PreviousReport)
                   IN  /\ curr = prev => name \notin Improved \cup Degraded
                       /\ curr \in Ranked /\ prev \in Ranked =>
                             /\ name \in Improved <=> Ordinal(curr) > Ordinal(prev)
                             /\ name \in Degraded <=> Ordinal(curr) < Ordinal(prev)

\* Three reports; the check failed in the previous one and passes in the
\* latest, which is not the file loaded last: it is listed as improved.
C18_Witness ==
    /\ agg_pc = "analyzed"
    /\ Len(agg_reports) = 3
    /\ LatestReport.file # 3
    /\ "Disk Space" \in NamesIn(LatestReport) \cap NamesIn(PreviousReport)
    /\ StatusOf("Disk Space", PreviousReport) = "FAIL"
    /\ StatusOf("Disk Space", LatestReport) = "OK"
    /\ Improved = {"Disk Space"}
    /\ Degraded = {}

\* C19: a check whose status is SKIP in the latest or in the previous
\* report is listed neither as improved nor as degraded.
C19_SkipNeverClassified ==
    agg_pc = "analyzed" /\ Len(agg_reports) >= 2 =>
        \A name \in NamesIn(LatestReport) \cap NamesIn(PreviousReport) :
            "SKIP" \in {StatusOf(name, LatestReport), StatusOf(name, PreviousReport)}
                => name \notin Improved \cup Degraded


(***************************************************************************)
(* C21: with exactly one report loaded, analyze completes; it prints no    *)
(* health trend status and no performance trend, only the run time of the  *)
(* one report as average, minimum and maximum, and the feature status      *)
(* section says that at least 2 reports are needed.                        *)
(***************************************************************************)
C21_SingleReportAnalysis ==
    (agg_pc \in {"analyzed", "raised"} /\ Len(agg_reports) = 1)
        => /\ agg_pc = "analyzed"
           /\ analysis.done
           /\ analysis.health_trend = "none"
           /\ analysis.performance = "none"
           /\ analysis.run_time.printed
           /\ analysis.run_time.count = 1
           /\ LET duration == Get(agg_reports[1].data, "duration_seconds", 0)
              IN  /\ analysis.run_time.total = duration
                  /\ analysis.run_time.min = duration
                  /\ analysis.run_time.max = duration
           /\ analysis.features = [printed |-> FALSE, improved |-> <<>>, degraded |-> <<>>]

\* One report was loaded beside an unreadable file, and analyzed.
C21_Witness ==
    /\ agg_pc = "analyzed"
    /\ Len(agg_reports) = 1
    /\ Len(files) = 2
    /\ HealthOf(agg_reports[1]) = "CRITICAL"


(***************************************************************************)
(* main of the thorough tool after run_all_checks: the JSON report, the    *)
(* HTML and Markdown renderings the command line asks for, the summary.    *)
(***************************************************************************)
\* Results recorded by the run before main builds the report.
MaxRenderResults == 1

\* The values of --output: absent, a file name, a directory.
OutputPaths == {"None", "report.json", "."}

\* json_file = args.output or f"thorough_diagnostic_{timestamp}.json".
JsonFile(a) ==
    IF a.output = "None" THEN "thorough_diagnostic_20240101_100000.json" ELSE a.output

\* Path(path).name without its last suffix; the name of "." is empty.
Stem(path) ==
    CASE path = "report.json" -> "report"
      [] path = "thorough_diagnostic_20240101_100000.json"
                              -> "thorough_diagnostic_20240101_100000"
      [] OTHER                -> ""

\* str(Path(path).with_suffix(suffix)), which raises ValueError for a path
\* with an empty name ("raises" stands for the exception).
with_suffix(path, suffix) ==
    IF Stem(path) = "" THEN "raises" ELSE Stem(path) \o suffix

\* open(path, 'w') cannot succeed on a directory.
CanOpen(path) == path # "."

\* A file written at path: a file of that name is replaced.
WriteFile(fs, path, data) ==
    LET entry == [path |-> path, readable |-> TRUE, data |-> data]
    IN  IF \E i \in DOMAIN fs : fs[i].path = path
        THEN [i \in DOMAIN fs |-> IF fs[i].path = path THEN entry ELSE fs[i]]
        ELSE Append(fs, entry)

\* What the HTML page shows of the report.
HtmlOf(report) ==
    [format |-> "html", overall_health |-> report.health, total_checks |-> report.total]

\* What the Markdown summary shows of the report.
MarkdownOf(report) ==
    [format |-> "markdown", overall_health |-> report.health,
     total_checks |-> report.total]

\* The try block around a report file: the file is written and a "saved"
\* line logged, or the exception is caught and a "failed" line logged.
SaveOrLog(self, path, data, written) ==
    IF written /\ CanOpen(path)
    THEN /\ files' = WriteFile(files, path, data)
         /\ err_log' = [err_log EXCEPT ![self] = Append(@, [kind |-> "saved", file |-> path])]
    ELSE /\ files' = files
         /\ err_log' = [err_log EXCEPT ![self] = Append(@, [kind |-> "failed", file |-> path])]

\* args = parser.parse_args().
MainParseArgs(self, output, html, markdown) ==
    /\ pc[self] = "new"
    /\ args[self] = NoArgs
    /\ args' = [args EXCEPT ![self] = [output |-> output, html |-> html,
                                       markdown |-> markdown]]
    /\ pc' = [pc EXCEPT ![self] = "parsed"]
    /\ UNCHANGED <<variant, platform, idx, results, categories, err_log, invoked, reports,
                   exit_code>>
    /\ UNCHANGED aggVars

\* tool.run_all_checks(), reduced to the results it records.
RunAddResult(self, status) ==
    /\ pc[self] = "parsed"
    /\ Len(results[self]) < MaxRenderResults
    /\ status \in Statuses(variant[self])
    /\ add_result(self, "Disk Space", status, "probe", "None", DefaultCategory)
    /\ UNCHANGED <<variant, platform, args, pc, idx, err_log, invoked, reports, exit_code>>
    /\ UNCHANGED aggVars

\* json_report = tool.generate_json_report(json_file): the report is built
\* and returned whether or not the file could be written.
MainJsonReport(self, written) ==
    /\ pc[self] = "parsed"
    /\ reports' = [reports EXCEPT ![self] = Append(@, generate_report(self))]
    /\ SaveOrLog(self, JsonFile(args[self]), ReportJson(self, ToolStart, 3), written)
    /\ pc' = [pc EXCEPT ![self] = "json"]
    /\ UNCHANGED <<variant, platform, args, idx, results, categories, invoked, exit_code>>
    /\ UNCHANGED <<agg_pc, load_returns, agg_reports, analysis>>

\* One "if args.<format>:" statement of main: the file name is derived from
\* json_file outside any try block, so its ValueError ends the process with
\* a traceback and status 1.
Render(self, wanted, suffix, data, written, from, to) ==
    /\ pc[self] = from
    /\ IF ~wanted
       THEN /\ pc' = [pc EXCEPT ![self] = to]
            /\ UNCHANGED <<err_log, exit_code, files>>
       ELSE IF with_suffix(JsonFile(args[self]), suffix) = "raises"
       THEN /\ err_log' = [err_log EXCEPT
                             ![self] = Append(@, [kind |-> "traceback", file |-> suffix])]
            /\ pc' = [pc EXCEPT ![self] = "exited"]
            /\ exit_code' = [exit_code EXCEPT ![self] = "1"]
            /\ UNCHANGED files
       ELSE /\ SaveOrLog(self, with_suffix(JsonFile(args[self]), suffix), data, written)
            /\ pc' = [pc EXCEPT ![self] = to]
            /\ UNCHANGED exit_code
    /\ UNCHANGED <<variant, platform, args, idx, results, categories, invoked, reports>>
    /\ UNCHANGED <<agg_pc, load_returns, agg_reports, analysis>>

\* if args.html: tool.generate_html_report(json_report, html_file).
MainHtmlReport(self, written) ==
    Render(self, args[self].html, ".html", HtmlOf(Last(reports[self])), written,
           "json", "html")

\* if args.markdown: tool.generate_markdown_summary(json_report, md_file).
MainMarkdownSummary(self, written) ==
    Render(self, args[self].markdown, ".md", MarkdownOf(Last(reports[self])), written,
           "html", "markdown")

\* tool.print_summary(json_report).
MainPrintSummary(self) ==
    /\ pc[self] = "markdown"
    /\ err_log' = [err_log EXCEPT
                     ![self] = Append(@, [kind |-> "summary", file |-> "console"])]
    /\ pc' = [pc EXCEPT ![self] = "reported"]
    /\ UNCHANGED <<variant, platform, args, idx, results, categories, invoked, reports, exit_code>>
    /\ UNCHANGED aggVars

InitThorough == Init /\ variant["tool1"] = "thorough"

NextRender ==
    \/ \E output \in OutputPaths, html \in BOOLEAN, markdown \in BOOLEAN :
            MainParseArgs("tool1", output, html, markdown)
    \/ \E status \in Statuses("thorough") : RunAddResult("tool1", status)
    \/ \E written \in BOOLEAN : MainJsonReport("tool1", written)
    \/ \E written \in BOOLEAN : MainHtmlReport("tool1", written)
    \/ \E written \in BOOLEAN : MainMarkdownSummary("tool1", written)
    \/ MainPrintSummary("tool1")
    \/ MainReturn("tool1")

\* The thorough tool's main from the command line to the exit.
SpecRender == InitThorough /\ [][NextRender]_vars

\* The files a finished main has logged a "saved" or "failed" line for.
Attempted(self) ==
    {err_log[self][i].file : i \in {j \in DOMAIN err_log[self] :
                                        err_log[self][j].kind \in {"saved", "failed"}}}

\* The JSON file of the run could not be written.
JsonWriteFailed(self) ==
    \E i \in DOMAIN err_log[self] :
        err_log[self][i] = [kind |-> "failed", file |-> JsonFile(args[self])]

(***************************************************************************)
(* C22: a failure to write one report file never aborts the run: when the  *)
(* JSON file could not be written, the report is still built and returned, *)
(* every requested rendering is attempted and the summary is printed.      *)
(***************************************************************************)
C22_WriteFailureNeverAborts ==
    \A self \in Tool :
        (pc[self] = "exited" /\ JsonWriteFailed(self))
            => /\ reports[self] # <<>>
               /\ args[self].html => \E f \in Attempted(self) : f = Stem(JsonFile(args[self])) \o ".html"
               /\ args[self].markdown => \E f \in Attempted(self) : f = Stem(JsonFile(args[self])) \o ".md"
               /\ \E i \in DOMAIN err_log[self] : err_log[self][i].kind = "summary"
               /\ exit_code[self] = "0"


(***************************************************************************)
(* C23: the exit code reflects the outcome of the run: a run that          *)
(* completes (its report was built) exits 0 exactly when the overall       *)
(* health of the report is not CRITICAL, and a run that was interrupted    *)
(* exits 1.                                                                *)
(***************************************************************************)
C23_ExitCodeReflectsOutcome ==
    \A self \in Tool :
        pc[self] = "exited"
            => IF reports[self] # <<>>
               THEN (exit_code[self] = "0") <=> (Last(reports[self]).health # "CRITICAL")
               ELSE exit_code[self] = "1"


\* s is an initial part of t.
IsPrefix(s, t) == Len(s) <= Len(t) /\ SubSeq(t, 1, Len(s)) = s

(***************************************************************************)
(* C24: recorded results are append-only.  No step of a run, whether a     *)
(* check records a result, fails or is interrupted, removes, moves or      *)
(* changes a result recorded earlier: the list before the step is an       *)
(* initial part of the list after it.  The flat result list of the report  *)
(* is the list of recorded results, in recording order.                    *)
(***************************************************************************)
C24_ResultsAppendOnly ==
    [][\A t \in Tool :
          /\ IsPrefix(results[t], results'[t])
          /\ \A i \in DOMAIN reports'[t] : reports'[t][i].all_results = results'[t]]_vars

\* A thorough run reported three results of different statuses recorded
\* around a check that failed.
C24_Witness ==
    /\ variant["tool1"] = "thorough"
    /\ reports["tool1"] # <<>>
    /\ err_log["tool1"] # <<>>
    /\ Len(results["tool1"]) = 3
    /\ results["tool1"][1].status = "OK"
    /\ results["tool1"][2].status = "FAIL"
    /\ results["tool1"][3].status = "SKIP"
    /\ results["tool1"][1].category # results["tool1"][3].category


(***************************************************************************)
(* The thorough tool used as an object, add_result called with categories  *)
(* of the caller's choice.                                                 *)
(***************************************************************************)
\* Results recorded before the report is built (SpecCategories).
MaxCategoryResults == 4

\* Categories the caller passes; "General" is the default.
CategorySamples == {"General", "System", "Logs"}

\* A caller records one result in a category.
ApiAddResultIn(self, status, category) ==
    /\ pc[self] = "new"
    /\ reports[self] = <<>>
    /\ Len(results[self]) < MaxCategoryResults
    /\ add_result(self, "Disk Space", status, "probe", "None", category)
    /\ UNCHANGED <<variant, platform, args, pc, idx, err_log, invoked, reports, exit_code>>
    /\ UNCHANGED aggVars

NextCategories ==
    \/ \E status \in {"OK", "FAIL"}, category \in CategorySamples :
            ApiAddResultIn("tool1", status, category)
    \/ ApiGenerateReport("tool1")

\* One thorough tool: add_result calls in several categories, then the
\* report.
SpecCategories == InitThorough /\ [][NextCategories]_vars

\* The position of the first result of a category in a list of results.
FirstOf(rs, category) ==
    CHOOSE i \in DOMAIN rs :
        /\ rs[i].category = category
        /\ \A j \in 1..(i - 1) : rs[j].category # category

(***************************************************************************)
(* C25: in the thorough tool's report, results_by_category is an           *)
(* order-preserving partition of all_results: the bucket of a category     *)
(* holds exactly the results of all_results recorded in that category, in  *)
(* the same relative order; there is one bucket for each category that     *)
(* occurs and none for any other; and the buckets are in the order in      *)
(* which their categories were first recorded.                             *)
(***************************************************************************)
C25_BucketsPartitionInOrder ==
    \A t \in Tool : \A k \in DOMAIN reports[t] :
        variant[t] = "thorough" =>
            LET all == reports[t][k].all_results
                buckets == reports[t][k].results_by_category
            IN  /\ \A i \in DOMAIN buckets :
                       buckets[i].items
                           = SelectSeq(all, LAMBDA r : r.category = buckets[i].category)
                /\ {buckets[i].category : i \in DOMAIN buckets}
                       = {all[j].category : j \in DOMAIN all}
                /\ \A i, j \in DOMAIN buckets :
                       i < j => FirstOf(all, buckets[i].category)
                                    < FirstOf(all, buckets[j].category)

\* A report of four results whose categories interleave: Logs, General,
\* Logs, General.
C25_Witness ==
    /\ reports["tool1"] # <<>>
    /\ LET all == reports["tool1"][1].all_results
       IN  /\ Len(all) = 4
           /\ all[1].category = "Logs" /\ all[2].category = "General"
           /\ all[3].category = "Logs" /\ all[4].category = "General"
           /\ all[1].status # all[3].status


(***************************************************************************)
(* Recommendations.  add_result stores its recommendation parameter in the *)
(* result; a result recorded without one (None) has no "recommendation"    *)
(* entry in the model.  The local-model part of check_llm_backends and     *)
(* check_logs are followed statement by statement; what they find on the   *)
(* machine is the environment's choice.                                    *)
(***************************************************************************)
\* DiagnosticResult(name, status, message, details, recommendation).
Recommended(r, recommendation) ==
    IF recommendation = "None" THEN r
    ELSE [k \in DOMAIN r \cup {"recommendation"} |->
            IF k = "recommendation" THEN recommendation ELSE r[k]]

\* add_result called with a recommendation.
add_result_recommending(self, name, status, message, details, recommendation, category) ==
    LET r == Recommended(DiagnosticResult(variant[self], name, status, message,
                                          details, category), recommendation)
    IN  /\ results' = [results EXCEPT ![self] = Append(@, r)]
        /\ categories' = [categories EXCEPT
                            ![self] = IF variant[self] = "basic" THEN @
                                      ELSE CategoryAppend(@, category, r)]

\* One statement of a check: a result is recorded and the check moves on.
Record(self, from, to, name, status, message, recommendation, category) ==
    /\ pc[self] = from
    /\ add_result_recommending(self, name, status, message, "None", recommendation,
                               category)
    /\ pc' = [pc EXCEPT ![self] = to]
    /\ UNCHANGED <<variant, platform, args, idx, err_log, invoked, reports, exit_code>>
    /\ UNCHANGED aggVars

\* A statement of a check that records nothing.
Skip(self, from, to) ==
    /\ pc[self] = from
    /\ pc' = [pc EXCEPT ![self] = to]
    /\ UNCHANGED <<variant, platform, args, idx, results, categories, err_log, invoked, reports,
                   exit_code>>
    /\ UNCHANGED aggVars

\* What the probes find: a directory is missing, empty or holds files.
Found == {"missing", "empty", "files"}

\* check_llm_backends, "Precompiled LLM Libraries".
PrecompiledLibraries(self, found) ==
    IF found # "missing"
    THEN Record(self, "new", "models", "Precompiled LLM Libraries", "OK",
                "Found", "None", "LLM Backends")
    ELSE Record(self, "new", "models", "Precompiled LLM Libraries", "WARNING",
                "Directory not found", "Run build_llama script for your platform",
                "LLM Backends")

\* check_llm_backends, "Check for local models".
LocalModels(self, found) ==
    CASE found = "files" ->
            Record(self, "models", "logs", "Local LLM Models", "OK",
                   "Found", "None", "LLM Backends")
      [] found = "empty" ->
            Record(self, "models", "logs", "Local LLM Models", "INFO",
                   "No models downloaded yet",
                   "Download models via the application on first run", "LLM Backends")
      [] OTHER ->
            Record(self, "models", "logs", "Local LLM Models", "INFO",
                   "Models directory not created yet", "None", "LLM Backends")

\* check_logs, "Log Directory": the check returns unless log files exist.
LogDirectory(self, found) ==
    CASE found = "files" ->
            Record(self, "logs", "error_logs", "Log Directory", "OK",
                   "Found", "None", "Logs")
      [] found = "empty" ->
            Record(self, "logs", "returned", "Log Directory", "INFO",
                   "No log files yet", "None", "Logs")
      [] OTHER ->
            Record(self, "logs", "returned", "Log Directory", "INFO",
                   "Not created yet (created on first run)", "None", "Logs")

\* The ages of the latest error log: under a day, or more.
Ages == {"recent", "old"}

\* status = "WARNING" if age_seconds < 86400 else "INFO".
ErrorLogStatus(age) == IF age = "recent" THEN "WARNING" ELSE "INFO"

\* check_logs, "Error Logs"; the preview is skipped in quick mode (the
\* tool's quick flag is read here only, and drawn here).
ErrorLogs(self, error_logs, age, quick) ==
    IF error_logs
    THEN Record(self, "error_logs", IF quick THEN "copilot" ELSE "preview",
                "Error Logs", ErrorLogStatus(age), "error log(s)",
                IF ErrorLogStatus(age) = "WARNING" THEN "Check error logs for issues"
                ELSE "None",
                "Logs")
    ELSE Record(self, "error_logs", "copilot", "Error Logs", "OK",
                "No error logs found", "None", "Logs")

\* check_logs, the last lines of the latest error log: read, empty, or not
\* readable.
ErrorPreview(self, read) ==
    CASE read = "files" ->
            Record(self, "preview", "copilot", "Recent Error Preview", "INFO",
                   "Last lines", "None", "Logs")
      [] read = "empty" -> Skip(self, "preview", "copilot")
      [] OTHER ->
            Record(self, "preview", "copilot", "Error Log Read", "WARNING",
                   "Could not read error log", "None", "Logs")

\* check_logs, "Copilot Error Reports".
CopilotReports(self, copilot_errors) ==
    IF copilot_errors
    THEN Record(self, "copilot", "returned", "Copilot Error Reports", "INFO",
                "report(s) generated", "User-friendly error reports for debugging",
                "Logs")
    ELSE Skip(self, "copilot", "returned")

NextLogs ==
    \/ \E found \in Found : PrecompiledLibraries("tool1", found)
    \/ \E found \in Found : LocalModels("tool1", found)
    \/ \E found \in Found : LogDirectory("tool1", found)
    \/ \E error_logs \in BOOLEAN, age \in Ages, quick \in BOOLEAN :
            ErrorLogs("tool1", error_logs, age, quick)
    \/ \E read \in Found : ErrorPreview("tool1", read)
    \/ \E copilot_errors \in BOOLEAN : CopilotReports("tool1", copilot_errors)

\* The thorough tool's probes of the model and log directories.
SpecLogs == InitThorough /\ [][NextLogs]_vars

\* The recommendation of a recorded result ("None" when it has none).
RecommendationOf(r) == Get(r, "recommendation", "None")

(***************************************************************************)
(* C26: in every reachable state of a run, a recorded result carries a     *)
(* recommendation only if its status is WARNING or FAIL; results with      *)
(* status OK, INFO or SKIP have none.                                      *)
(***************************************************************************)
C26_RecommendationOnlyOnWarningOrFail ==
    \A t \in Tool : \A i \in DOMAIN results[t] :
        RecommendationOf(results[t][i]) # "None"
            => results[t][i].status \in {"WARNING", "FAIL"}


(***************************************************************************)
(* External calls.  The probes of check_dependencies and check_performance *)
(* (basic tool) and of check_api_connectivity (thorough tool, run with     *)
(* --test-apis) start a process or open a connection and wait for it.  A   *)
(* call made with a timeout is ended by the timeout when no answer comes;  *)
(* a call made without one waits until the answer comes.                   *)
(***************************************************************************)
Platforms == {"Linux", "Darwin", "Windows"}

\* The call sites in the order a run reaches them: the platforms the call
\* is made on, whether a timeout is passed, the statuses recorded for an
\* answer, the status recorded when the timeout expires, and the status
\* after which the check returns at once.
CallSites(v) ==
    IF v = "basic"
    THEN << [name |-> "Qt6Widgets", command |-> "pkg-config",
             platforms |-> {"Linux", "Darwin"}, timeout |-> TRUE,
             answers |-> {"OK", "WARNING"}, expired |-> "WARNING", returns |-> "none"],
            [name |-> "System Memory", command |-> "sysctl",
             platforms |-> {"Darwin"}, timeout |-> FALSE,
             answers |-> {"OK", "WARNING", "INFO"}, expired |-> "none",
             returns |-> "none"] >>
    ELSE << [name |-> "Internet Connectivity", command |-> "socket.create_connection",
             platforms |-> Platforms, timeout |-> TRUE,
             answers |-> {"OK", "FAIL"}, expired |-> "FAIL", returns |-> "FAIL"],
            [name |-> "OpenAI API Endpoint", command |-> "curl",
             platforms |-> Platforms, timeout |-> TRUE,
             answers |-> {"OK", "WARNING"}, expired |-> "WARNING", returns |-> "none"],
            [name |-> "Gemini API Endpoint", command |-> "curl",
             platforms |-> Platforms, timeout |-> TRUE,
             answers |-> {"OK", "WARNING"}, expired |-> "WARNING", returns |-> "none"] >>

\* The call site the run is at.
CurrentSite(self) == CallSites(variant[self])[idx[self]]

\* The tools constructed on a machine of any platform.
InitCalls ==
    /\ \E v \in Variants : variant = [t \in Tool |-> v]
    /\ platform \in Platforms
    /\ args = [t \in Tool |-> NoArgs]
    /\ pc = [t \in Tool |-> "new"]
    /\ idx = [t \in Tool |-> 1]
    /\ results = [t \in Tool |-> <<>>]
    /\ categories = [t \in Tool |-> <<>>]
    /\ err_log = [t \in Tool |-> <<>>]
    /\ invoked = [t \in Tool |-> <<>>]
    /\ reports = [t \in Tool |-> <<>>]
    /\ exit_code = [t \in Tool |-> "none"]
    /\ files = <<>>
    /\ agg_pc = "loading"
    /\ load_returns = <<>>
    /\ agg_reports = <<>>
    /\ analysis = [done |-> FALSE]

\* main starts the run.
RunStart(self) ==
    /\ pc[self] = "new"
    /\ pc' = [pc EXCEPT ![self] = "site"]
    /\ UNCHANGED <<variant, platform, args, idx, results, categories, err_log, invoked,
                   reports, exit_code>>
    /\ UNCHANGED aggVars

\* The branch of the call is not taken on this platform.
SiteSkip(self) ==
    /\ pc[self] = "site"
    /\ idx[self] <= Len(CallSites(variant[self]))
    /\ platform \notin CurrentSite(self).platforms
    /\ idx' = [idx EXCEPT ![self] = @ + 1]
    /\ UNCHANGED <<variant, platform, args, pc, results, categories, err_log, invoked,
                   reports, exit_code>>
    /\ UNCHANGED aggVars

\* subprocess.run(...) or socket.create_connection(...) is entered.
CallStart(self) ==
    /\ pc[self] = "site"
    /\ idx[self] <= Len(CallSites(variant[self]))
    /\ platform \in CurrentSite(self).platforms
    /\ pc' = [pc EXCEPT ![self] = "calling"]
    /\ invoked' = [invoked EXCEPT ![self] = Append(@, CurrentSite(self).command)]
    /\ UNCHANGED <<variant, platform, args, idx, results, categories, err_log, reports,
                   exit_code>>
    /\ UNCHANGED aggVars

\* The site the run goes to after a result of the given status.
SiteAfter(self, status) ==
    IF status = CurrentSite(self).returns
    THEN Len(CallSites(variant[self])) + 1
    ELSE idx[self] + 1

\* The call returns or raises, and the probe records what it learnt.
CallAnswers(self, status) ==
    /\ pc[self] = "calling"
    /\ status \in CurrentSite(self).answers
    /\ add_result(self, CurrentSite(self).name, status, "probe", "None", "API")
    /\ pc' = [pc EXCEPT ![self] = "site"]
    /\ idx' = [idx EXCEPT ![self] = SiteAfter(self, status)]
    /\ UNCHANGED <<variant, platform, args, err_log, invoked, reports, exit_code>>
    /\ UNCHANGED aggVars

\* The timeout of the call expires: the exception is caught by the probe
\* and recorded.
CallTimeout(self) ==
    /\ pc[self] = "calling"
    /\ CurrentSite(self).timeout
    /\ add_result(self, CurrentSite(self).name, CurrentSite(self).expired, "timeout",
                  "None", "API")
    /\ pc' = [pc EXCEPT ![self] = "site"]
    /\ idx' = [idx EXCEPT ![self] = SiteAfter(self, CurrentSite(self).expired)]
    /\ UNCHANGED <<variant, platform, args, err_log, invoked, reports, exit_code>>
    /\ UNCHANGED aggVars

\* The probes are through: main builds the report.
CallsDone(self) ==
    /\ pc[self] = "site"
    /\ idx[self] > Len(CallSites(variant[self]))
    /\ reports' = [reports EXCEPT ![self] = Append(@, generate_report(self))]
    /\ pc' = [pc EXCEPT ![self] = "reported"]
    /\ UNCHANGED <<variant, platform, args, idx, results, categories, err_log, invoked,
                   exit_code>>
    /\ UNCHANGED aggVars

\* The steps the tool takes by itself.
ToolStep(self) ==
    \/ RunStart(self)
    \/ SiteSkip(self)
    \/ CallStart(self)
    \/ CallsDone(self)
    \/ MainReturn(self)

NextCalls ==
    \/ ToolStep("tool1")
    \/ \E status \in Statuses("thorough") : CallAnswers("tool1", status)
    \/ CallTimeout("tool1")

\* A run through its external calls.  The tool's own steps are taken and a
\* timeout that was set expires; nothing makes the called process or the
\* peer answer.
FairCalls ==
    /\ InitCalls
    /\ [][NextCalls]_vars
    /\ WF_vars(ToolStep("tool1"))
    /\ WF_vars(CallTimeout("tool1"))

(***************************************************************************)
(* C27: a run always terminates, even when an external process or network *)
(* call started by a probe never answers.                                  *)
(***************************************************************************)
C27_RunAlwaysTerminates == <>(pc["tool1"] = "exited")


(***************************************************************************)
(* Two tool instances in one process, their add_result calls interleaved   *)
(* in any order.  Each instance records results under a name of its own,   *)
(* and the statuses passed through an instance are kept in invoked.        *)
(***************************************************************************)
\* Results recorded per instance (SpecInstances).
MaxInstanceResults == 2

\* The name an instance's caller passes.
InstanceCheck(self) == IF self = "tool1" THEN "Disk Space" ELSE "Database"

\* A call of add_result through one instance.
InstanceAddResult(self, status) ==
    /\ pc[self] = "new"
    /\ reports[self] = <<>>
    /\ Len(results[self]) < MaxInstanceResults
    /\ add_result(self, InstanceCheck(self), status, "probe", "None", DefaultCategory)
    /\ invoked' = [invoked EXCEPT ![self] = Append(@, status)]
    /\ UNCHANGED <<variant, platform, args, pc, idx, err_log, reports, exit_code>>
    /\ UNCHANGED aggVars

NextInstances ==
    \/ \E self \in Tool, status \in {"OK", "WARNING", "FAIL"} :
            InstanceAddResult(self, status)
    \/ \E self \in Tool : ApiGenerateReport(self)

SpecInstances == Init /\ [][NextInstances]_vars

\* The results a tool would hold had it recorded exactly the calls made
\* through it.
OwnResults(t) ==
    [i \in DOMAIN invoked[t] |->
        DiagnosticResult(variant[t], InstanceCheck(t), invoked[t][i], "probe", "None",
                         DefaultCategory)]

\* The number of calls made through a tool with the given status.
OwnCount(t, status) == Cardinality({i \in DOMAIN invoked[t] : invoked[t][i] = status})

(***************************************************************************)
(* C28: runs share no state.  With two instances used in one process, each *)
(* instance's results and category buckets hold exactly the results        *)
(* recorded through that instance, and its report counts only those.       *)
(***************************************************************************)
C28_InstancesShareNoState ==
    \A t \in Tool :
        /\ results[t] = OwnResults(t)
        /\ variant[t] = "thorough" =>
              categories[t] = IF invoked[t] = <<>> THEN <<>>
                              ELSE <<[category |-> DefaultCategory, items |-> OwnResults(t)]>>
        /\ \A k \in DOMAIN reports[t] :
              /\ reports[t][k].total = Len(invoked[t])
              /\ reports[t][k].all_results = OwnResults(t)
              /\ reports[t][k].by_status[IF variant[t] = "basic" THEN "fail" ELSE "FAIL"]
                    = OwnCount(t, "FAIL")
              /\ reports[t][k].by_status[IF variant[t] = "basic" THEN "warning" ELSE "WARNING"]
                    = OwnCount(t, "WARNING")

\* Both instances have reported: FAIL and WARNING were recorded through the
\* first, a single OK through the second.
C28_Witness ==
    /\ reports["tool1"] # <<>> /\ reports["tool2"] # <<>>
    /\ invoked["tool1"] = <<"FAIL", "WARNING">>
    /\ invoked["tool2"] = <<"OK">>
    /\ reports["tool1"][1].health = "CRITICAL"
    /\ reports["tool2"][1].health = "EXCELLENT"


\* The lines printed under "Most Common Failures" and "Most Common
\* Warnings".
IssueLines == Range(analysis.failures) \cup Range(analysis.warnings)

(***************************************************************************)
(* C29: in the common-issues analysis the occurrence count of a name never *)
(* exceeds the number of loaded reports, so every printed rate lies        *)
(* between 0% and 100%, also when one report holds several FAIL or WARNING *)
(* results of the same name.                                               *)
(***************************************************************************)
C29_RateAtMostHundredPercent ==
    agg_pc = "analyzed"
        => \A line \in IssueLines :
              /\ line.count <= Len(agg_reports)
              /\ line.pct >= 0
              /\ line.pct <= 1000


(***************************************************************************)
(* The analyzer run on files that json.load accepts but that no tool       *)
(* wrote: load_report appends whatever document the file holds.            *)
(***************************************************************************)
\* Files in the directory (SpecAny).
MaxAnyFiles == 3

\* A report of the basic tool with one failing result.
FailingDoc(start_time) == ReportDoc(<<Result("Disk Space", "FAIL")>>, start_time, 3, TRUE)

\* Well-formed JSON documents: two reports of the tool, an array, a report
\* dated in words, a report whose result has no name, and one whose result
\* has no status.
AnyDocuments ==
    {FailingDoc(<<1, 0>>),
     FailingDoc(<<2, 0>>),
     JsonArray(<<>>),
     [FailingDoc(<<1, 0>>) EXCEPT !.timestamp = "yesterday"],
     [FailingDoc(<<1, 0>>) EXCEPT !.results = <<[status |-> "FAIL"]>>],
     [FailingDoc(<<1, 0>>) EXCEPT !.results = <<[name |-> "Disk Space"]>>]}

\* A JSON file appears in the directory before the analyzer starts.
WriteDocument(doc) ==
    /\ agg_pc = "loading"
    /\ load_returns = <<>>
    /\ Len(files) < MaxAnyFiles
    /\ files' = Append(files, [path |-> Len(files) + 1, readable |-> TRUE, data |-> doc])
    /\ UNCHANGED <<agg_pc, load_returns, agg_reports, analysis>>
    /\ UNCHANGED toolVars

NextAny ==
    \/ \E doc \in AnyDocuments : WriteDocument(doc)
    \/ LoadDirectory
    \/ Analyze

SpecAny == InitAnalyzer /\ [][NextAny]_vars

(***************************************************************************)
(* C30: for every non-empty set of reports that load_report accepted, any  *)
(* well-formed JSON documents among them, analyze completes its four       *)
(* analyses without raising.                                               *)
(***************************************************************************)
C30_AnalyzeNeverRaises == agg_pc # "raised"

=============================================================================
